---- MODULE Spec2Model ----
(***************************************************************************)
(* LLM Lab Console: the text-quality scoring engine (src/app/lib/metrics.ts) *)
(* and its callers.                                                        *)
(*                                                                         *)
(* A text is a sequence of characters; a character is a one-character      *)
(* string, or one of the named characters LF, CR, TAB, BULLET.  A JavaScript *)
(* number is a fixed-point integer: n stands for n / SCALE, and every      *)
(* arithmetic step rounds to the nearest representable value, as a double  *)
(* does at its own resolution.                                             *)
(***************************************************************************)
EXTENDS Integers, Sequences, FiniteSets, TLC

VARIABLES
  DEFAULT_WEIGHTS,  \* the module-level weight table of metrics.ts
  STOPWORDS,        \* the module-level stopword Set of metrics.ts
  response,         \* the arguments of the current call of calculateMetrics
  prompt,
  weights,          \* the caller's weights object
  result,           \* what the current call returned
  pc,               \* "ready" before the call, "done" after it
  ncalls,           \* the calls made so far
  seen,             \* the calls made so far, in order, each with what it returned
  frames,           \* the invocations in flight at once, each with its locals
  route,            \* one request to POST /api/experiment: its locals, the database, its reply
  groq,             \* one call of generateResponse: its locals, the requests issued, its outcome
  reportsPage,      \* the Reports component: its state, its effect's closure, the fetch
  exportButtons,    \* the ExportButtons component: its state and the downloads in flight
  experimentPage    \* the ExperimentPage component: its state and the requests in flight

metricVars == <<DEFAULT_WEIGHTS, STOPWORDS, response, prompt, weights, result, pc, ncalls, seen>>

\* the server's route and client, and the three components of the browser
hostVars == <<route, groq, reportsPage, exportButtons, experimentPage>>

vars == <<DEFAULT_WEIGHTS, STOPWORDS, response, prompt, weights, result, pc, ncalls, seen, frames,
          route, groq, reportsPage, exportButtons, experimentPage>>

\* ------------------------------------------------------------ characters

LF == "LF"

CR == "CR"

TAB == "TAB"

BULLET == "BULLET"

SP == " "

LowerLetters ==
  {"a", "b", "c", "d", "e", "f", "g", "h", "i", "j", "k", "l", "m", "n", "o", "p", "q", "r", "s", "t", "u", "v", "w", "x", "y", "z"}

UpperLetters ==
  {"A", "B", "C", "D", "E", "F", "G", "H", "I", "J", "K", "L", "M", "N", "O", "P", "Q", "R", "S", "T", "U", "V", "W", "X", "Y", "Z"}

Digits == {"0", "1", "2", "3", "4", "5", "6", "7", "8", "9"}

\* \s of the regular expressions and the characters String.trim removes
WhiteSpace == {SP, LF, CR, TAB}

\* [.!?] of the sentence splitter
Terminators == {".", "!", "?"}

\* \w of the regular expressions (for \b)
WordChars == LowerLetters \cup UpperLetters \cup Digits \cup {"_"}

Vowels == {"a", "e", "i", "o", "u", "y"}

UpperToLower ==
   ("A" :> "a") @@ ("B" :> "b") @@ ("C" :> "c") @@ ("D" :> "d") @@ ("E" :> "e") @@ ("F" :> "f") @@
   ("G" :> "g") @@ ("H" :> "h") @@ ("I" :> "i") @@ ("J" :> "j") @@ ("K" :> "k") @@ ("L" :> "l") @@
   ("M" :> "m") @@ ("N" :> "n") @@ ("O" :> "o") @@ ("P" :> "p") @@ ("Q" :> "q") @@ ("R" :> "r") @@
   ("S" :> "s") @@ ("T" :> "t") @@ ("U" :> "u") @@ ("V" :> "v") @@ ("W" :> "w") @@ ("X" :> "x") @@
   ("Y" :> "y") @@ ("Z" :> "z")

toLowerChar(c) == IF c \in UpperLetters THEN UpperToLower[c] ELSE c

\* ------------------------------------------------------------ sequences

Range(s) == {s[i] : i \in 1..Len(s)}

Max(a, b) == IF a >= b THEN a ELSE b

Min(a, b) == IF a <= b THEN a ELSE b

Abs(a) == IF a >= 0 THEN a ELSE -a

\* the sum of f[lo] .. f[hi]
RECURSIVE SumRange(_, _, _)
SumRange(f, lo, hi) ==
  IF lo > hi THEN 0
  ELSE IF lo = hi THEN f[lo]
  ELSE LET mid == (lo + hi) \div 2
       IN  SumRange(f, lo, mid) + SumRange(f, mid + 1, hi)

SumSeq(s) == SumRange(s, 1, Len(s))

\* the members of S in lo .. hi, in increasing order
RECURSIVE IndexSeq(_, _, _)
IndexSeq(S, lo, hi) ==
  IF lo > hi THEN <<>>
  ELSE IF lo = hi THEN (IF lo \in S THEN <<lo>> ELSE <<>>)
  ELSE LET mid == (lo + hi) \div 2
       IN  IndexSeq(S, lo, mid) \o IndexSeq(S, mid + 1, hi)

\* .filter(Boolean) on an array of strings
FilterNonEmpty(ss) == SelectSeq(ss, LAMBDA s : Len(s) > 0)

\* the index of the last character of the run of characters of Set that
\* starts at i (i - 1 when text[i] is not in Set)
RECURSIVE EndOfRun(_, _, _)
EndOfRun(text, i, Set) ==
  IF i <= Len(text) /\ text[i] \in Set THEN EndOfRun(text, i + 1, Set) ELSE i - 1

\* the index of the first character of the run of characters of Set that
\* ends at i (i + 1 when text[i] is not in Set)
RECURSIVE StartOfRun(_, _, _)
StartOfRun(text, i, Set) ==
  IF i >= 1 /\ text[i] \in Set THEN StartOfRun(text, i - 1, Set) ELSE i + 1

\* String.prototype.split, less the empty pieces: with sep the set of the
\* indices the separator's matches cover, the maximal runs of text outside sep
SplitPieces(text, sep) ==
  LET n == Len(text)
      starts == IndexSeq({i \in 1..n : i \notin sep /\ (i = 1 \/ (i - 1) \in sep)}, 1, n)
      ends == IndexSeq({i \in 1..n : i \notin sep /\ (i = n \/ (i + 1) \in sep)}, 1, n)
  IN  [k \in 1..Len(starts) |-> SubSeq(text, starts[k], ends[k])]

\* String.prototype.trim
trim(text) ==
  LET lo == EndOfRun(text, 1, WhiteSpace) + 1
      hi == StartOfRun(text, Len(text), WhiteSpace) - 1
  IN  IF lo > hi THEN <<>> ELSE SubSeq(text, lo, hi)

TrimAll(ss) == [i \in 1..Len(ss) |-> trim(ss[i])]

\* ------------------------------------------------------------ tokenizer

normalizeText(text) == [i \in 1..Len(text) |-> toLowerChar(text[i])]

\* .replace(/[^a-z0-9\s-]/g, " ")
ReplaceNonWord(text) ==
  [i \in 1..Len(text) |->
     IF text[i] \in LowerLetters \cup Digits \cup WhiteSpace \cup {"-"}
     THEN text[i] ELSE SP]

\* the indices of the characters of Set
IndicesIn(text, Set) == {i \in 1..Len(text) : text[i] \in Set}

\* .split(/\s+/).filter(Boolean)
tokenizeWords(text) ==
  LET t == ReplaceNonWord(normalizeText(text))
  IN  SplitPieces(t, IndicesIn(t, WhiteSpace))

\* the indices covered by the matches of /(?<=[.!?])\s+|\n+/g: every run of
\* white space that follows a terminator, and every other newline
sentenceSeparators(text) ==
  {i \in 1..Len(text) :
     \/ text[i] = LF
     \/ /\ text[i] \in WhiteSpace
        /\ LET s == StartOfRun(text, i, WhiteSpace)
           IN  s > 1 /\ text[s - 1] \in Terminators}

\* sentences without its .map((t) => t.trim())
sentencesUntrimmed(text) ==
  LET s == FilterNonEmpty(SplitPieces(text, sentenceSeparators(text)))
  IN  IF Len(s) > 0 THEN s ELSE FilterNonEmpty(<<trim(text)>>)

sentences(text) ==
  LET s == FilterNonEmpty(TrimAll(SplitPieces(text, sentenceSeparators(text))))
  IN  IF Len(s) > 0 THEN s ELSE FilterNonEmpty(<<trim(text)>>)

\* the indices covered by the matches of /\n\s*\n/g: in every run of white
\* space with two newlines or more, from its first newline to its last
paragraphSeparators(text) ==
  {i \in 1..Len(text) :
     /\ text[i] \in WhiteSpace
     /\ LET s == StartOfRun(text, i, WhiteSpace)
            e == EndOfRun(text, i, WhiteSpace)
        IN  /\ \E j \in s..i : text[j] = LF
            /\ \E j \in i..e : text[j] = LF
            /\ Cardinality({j \in s..e : text[j] = LF}) >= 2}

\* text.split(/\n\s*\n/).filter(Boolean)
paragraphs(text) == SplitPieces(text, paragraphSeparators(text))

StopwordList ==
 {
   <<"t","h","e">>, <<"a">>, <<"a","n">>,
   <<"a","n","d">>, <<"o","r">>, <<"o","f">>,
   <<"t","o">>, <<"i","n">>, <<"f","o","r">>,
   <<"o","n">>, <<"w","i","t","h">>, <<"i","s">>,
   <<"a","r","e">>, <<"b","e">>, <<"a","s">>,
   <<"b","y">>, <<"t","h","a","t">>, <<"t","h","i","s">>,
   <<"i","t">>, <<"y","o","u">>, <<"y","o","u","r">>,
   <<"w","e">>, <<"o","u","r">>, <<"a","t">>,
   <<"f","r","o","m">>, <<"h","o","w">>, <<"w","h","a","t">>,
   <<"w","h","y">>, <<"w","h","e","n">>, <<"w","h","e","r","e">>,
   <<"w","h","i","c","h">>, <<"b","u","t">>, <<"i","f">>,
   <<"t","h","e","n">>, <<"s","o">>, <<"t","h","a","n">>,
   <<"c","a","n">>, <<"c","o","u","l","d">>, <<"s","h","o","u","l","d">>,
   <<"w","o","u","l","d">>, <<"a","b","o","u","t">>, <<"i","n","t","o">>,
   <<"o","v","e","r">>, <<"u","n","d","e","r">>, <<"m","o","r","e">>,
   <<"m","o","s","t">>, <<"s","o","m","e">>, <<"a","n","y">>,
   <<"s","u","c","h">>, <<"n","o">>, <<"n","o","t">>,
   <<"o","n","l","y">>, <<"o","w","n">>, <<"s","a","m","e">>,
   <<"t","o","o">>, <<"v","e","r","y">>
 }

TransLexList ==
 {
   <<"h","o","w","e","v","e","r">>, <<"t","h","e","r","e","f","o","r","e">>, <<"t","h","u","s">>,
   <<"c","o","n","s","e","q","u","e","n","t","l","y">>, <<"f","u","r","t","h","e","r","m","o","r","e">>, <<"m","o","r","e","o","v","e","r">>,
   <<"m","e","a","n","w","h","i","l","e">>, <<"n","e","v","e","r","t","h","e","l","e","s","s">>, <<"a","l","t","e","r","n","a","t","i","v","e","l","y">>,
   <<"a","d","d","i","t","i","o","n","a","l","l","y">>, <<"s","i","m","i","l","a","r","l","y">>, <<"c","o","n","v","e","r","s","e","l","y">>,
   <<"i","n","s","t","e","a","d">>, <<"a","c","c","o","r","d","i","n","g","l","y">>, <<"f","i","n","a","l","l","y">>,
   <<"f","i","r","s","t">>, <<"s","e","c","o","n","d">>, <<"t","h","i","r","d">>,
   <<"o","v","e","r","a","l","l">>, <<"i","n">>, <<"c","o","n","c","l","u","s","i","o","n">>,
   <<"n","e","x","t">>
 }

ImperativeVerbs ==
 {
   <<"w","r","i","t","e">>, <<"c","r","e","a","t","e">>, <<"e","x","p","l","a","i","n">>,
   <<"c","o","m","p","a","r","e">>, <<"l","i","s","t">>, <<"d","e","s","i","g","n">>,
   <<"i","m","p","l","e","m","e","n","t">>, <<"s","h","o","w">>, <<"b","u","i","l","d">>,
   <<"s","u","m","m","a","r","i","z","e">>, <<"a","n","a","l","y","z","e">>, <<"e","v","a","l","u","a","t","e">>,
   <<"p","r","o","v","i","d","e">>, <<"o","u","t","l","i","n","e">>, <<"g","e","n","e","r","a","t","e">>
 }

\* ------------------------------------------------------------ numbers

\* resolution of the fixed-point numbers: n stands for n / SCALE
SCALE == 10000

\* a / b rounded to the nearest integer, halves up (b > 0)
RoundDiv(a, b) == (2 * a + b) \div (2 * b)

\* the number num / den
Fp(num, den) == RoundDiv(num * SCALE, den)

\* x * y
Mul(x, y) == RoundDiv(x * y, SCALE)

\* x / y (y > 0)
Div(x, y) == RoundDiv(x * SCALE, y)

\* Math.floor and Math.ceil of the number num / den (den > 0)
MathFloor(num, den) == num \div den

MathCeil(num, den) == (num + den - 1) \div den

\* Math.log10(m) for the integers 1 .. 100
Log10Table ==
 <<0, 3010, 4771, 6021, 6990, 7782, 8451, 9031, 9542, 10000,
   10414, 10792, 11139, 11461, 11761, 12041, 12304, 12553, 12788, 13010,
   13222, 13424, 13617, 13802, 13979, 14150, 14314, 14472, 14624, 14771,
   14914, 15051, 15185, 15315, 15441, 15563, 15682, 15798, 15911, 16021,
   16128, 16232, 16335, 16435, 16532, 16628, 16721, 16812, 16902, 16990,
   17076, 17160, 17243, 17324, 17404, 17482, 17559, 17634, 17709, 17782,
   17853, 17924, 17993, 18062, 18129, 18195, 18261, 18325, 18388, 18451,
   18513, 18573, 18633, 18692, 18751, 18808, 18865, 18921, 18976, 19031,
   19085, 19138, 19191, 19243, 19294, 19345, 19395, 19445, 19494, 19542,
   19590, 19638, 19685, 19731, 19777, 19823, 19868, 19912, 19956, 20000>>

\* Math.log10(m), m >= 1 an integer; above 100 only its exceeding 2 matters
RECURSIVE MathLog10(_)
MathLog10(m) == IF m <= 100 THEN Log10Table[m] ELSE SCALE + MathLog10(m \div 10)

\* Math.exp(-n) for n = 0 .. 9, and Math.exp(-k/8) for k = 0 .. 7
ExpIntTable == <<10000, 3679, 1353, 498, 183, 67, 25, 9, 3, 1>>

ExpEighthTable == <<10000, 8825, 7788, 6873, 6065, 5353, 4724, 4169>>

\* Math.exp(-x) for x >= 0: exp(-n) * exp(-k/8) * (1 - r + r^2/2 - r^3/6)
\* with x = n + k/8 + r, 0 <= r < 1/8
MathExpNeg(x) ==
  LET n == x \div SCALE
      f == x % SCALE
      k == (8 * f) \div SCALE
      r == f - (k * SCALE) \div 8
      r2 == Mul(r, r)
      taylor == SCALE - r + RoundDiv(r2, 2) - RoundDiv(Mul(r2, r), 6)
  IN  IF n >= Len(ExpIntTable) THEN 0
      ELSE Mul(Mul(ExpIntTable[n + 1], ExpEighthTable[k + 1]), taylor)

\* A weight, and the score computed from weights, is any JavaScript number,
\* or undefined where a caller's object holds it: the finite ones carry their
\* fixed-point value.
Finite(v) == [kind |-> "finite", val |-> v]

NaN == [kind |-> "NaN", val |-> 0]

PosInfinity == [kind |-> "Infinity", val |-> 1]

NegInfinity == [kind |-> "Infinity", val |-> -1]

Undefined == [kind |-> "undefined", val |-> 0]

Sign(v) == IF v > 0 THEN 1 ELSE IF v < 0 THEN -1 ELSE 0

\* ToNumber
ToNumber(x) == IF x.kind = "undefined" THEN NaN ELSE x

\* a * b
JsMul(x, y) ==
  LET a == ToNumber(x)
      b == ToNumber(y)
  IN  IF a.kind = "NaN" \/ b.kind = "NaN" THEN NaN
      ELSE IF a.kind = "Infinity" \/ b.kind = "Infinity"
           THEN (IF Sign(a.val) * Sign(b.val) = 0 THEN NaN
                 ELSE [kind |-> "Infinity", val |-> Sign(a.val) * Sign(b.val)])
      ELSE Finite(Mul(a.val, b.val))

\* a + b
JsAdd(x, y) ==
  LET a == ToNumber(x)
      b == ToNumber(y)
  IN  IF a.kind = "NaN" \/ b.kind = "NaN" THEN NaN
      ELSE IF a.kind = "Infinity" /\ b.kind = "Infinity"
           THEN (IF a.val = b.val THEN a ELSE NaN)
      ELSE IF a.kind = "Infinity" THEN a
      ELSE IF b.kind = "Infinity" THEN b
      ELSE Finite(a.val + b.val)

\* Math.round(x * 100): the nearest integer, halves up; the result is an
\* integer, so its val counts units
MathRound100(x) ==
  IF x.kind = "finite" THEN Finite((2 * 100 * x.val + SCALE) \div (2 * SCALE)) ELSE x

avg(a) == IF Len(a) > 0 THEN RoundDiv(SumSeq(a), Len(a)) ELSE 0

clamp01(x) == Max(0, Min(SCALE, x))

\* clamp0to100 without its Math.min(100, ...)
clamp0to100NoCeiling(x) ==
  IF x.kind = "NaN" THEN NaN
  ELSE IF x.kind = "Infinity" THEN (IF x.val > 0 THEN x ELSE Finite(0))
  ELSE Finite(Max(0, x.val))

\* Math.max(0, Math.min(100, x)): NaN passes through both
clamp0to100(x) ==
  IF x.kind = "NaN" THEN NaN
  ELSE IF x.kind = "Infinity" THEN (IF x.val > 0 THEN Finite(100) ELSE Finite(0))
  ELSE Finite(Max(0, Min(100, x.val)))

\* ------------------------------------------------------------ helpers

jaccard(a, b) ==
  LET inter == Cardinality(a \cap b)
      uni == IF Cardinality(a \cup b) = 0 THEN 1 ELSE Cardinality(a \cup b)
  IN  Fp(inter, uni)

\* words.filter((w) => !STOPWORDS.has(w) && w.length > 2)
contentWords(words) == SelectSeq(words, LAMBDA w : w \notin STOPWORDS /\ Len(w) > 2)

\* ------------------------------------------------------------ requirements

\* the indices covered by the matches of /\r?\n/g
lineSeparators(text) ==
  {i \in 1..Len(text) :
     text[i] = LF \/ (text[i] = CR /\ i < Len(text) /\ text[i + 1] = LF)}

\* prompt.split(/\r?\n/).map((l) => l.trim()).filter(Boolean)
promptLines(prmpt) == FilterNonEmpty(TrimAll(SplitPieces(prmpt, lineSeparators(prmpt))))

\* the length of the marker and the white space after it when the line
\* matches /^([-*•]|\d+\.)\s+/, and 0 when it does not
markerLength(line) ==
  LET d == EndOfRun(line, 1, Digits)
      m == IF Len(line) >= 1 /\ line[1] \in {"-", "*", BULLET} THEN 1
           ELSE IF d >= 1 /\ d < Len(line) /\ line[d + 1] = "." THEN d + 1
           ELSE 0
      e == EndOfRun(line, m + 1, WhiteSpace)
  IN  IF m > 0 /\ e > m THEN e ELSE 0

\* the verb test without its \b
startsWithImperativeAnywhere(line) ==
  \E v \in ImperativeVerbs :
    /\ Len(line) >= Len(v)
    /\ normalizeText(SubSeq(line, 1, Len(v))) = v

\* /^(write|create|...|generate)\b/i.test(line)
startsWithImperative(line) ==
  \E v \in ImperativeVerbs :
    /\ Len(line) >= Len(v)
    /\ normalizeText(SubSeq(line, 1, Len(v))) = v
    /\ (Len(line) = Len(v) \/ line[Len(v) + 1] \notin WordChars)

RECURSIVE requirementsOf(_)
requirementsOf(lines) ==
  IF lines = <<>> THEN <<>>
  ELSE LET line == Head(lines)
           n == markerLength(line)
       IN  IF n > 0
           THEN <<SubSeq(line, n + 1, Len(line))>> \o requirementsOf(Tail(lines))
           ELSE IF startsWithImperative(line)
                THEN <<line>> \o requirementsOf(Tail(lines))
                ELSE requirementsOf(Tail(lines))

\* extractRequirements returning reqs as the loop leaves it
extractRequirementsNoFallback(prmpt) == requirementsOf(promptLines(prmpt))

extractRequirements(prmpt) ==
  LET reqs == requirementsOf(promptLines(prmpt))
  IN  IF Len(reqs) > 0 THEN reqs ELSE <<prmpt>>

\* ------------------------------------------------------------ readability

LettersOnly(word) == SelectSeq(normalizeText(word), LAMBDA c : c \in LowerLetters)

\* the number of maximal runs of vowels in w
vowelGroups(w) ==
  Cardinality({i \in 1..Len(w) : w[i] \in Vowels /\ (i = 1 \/ w[i - 1] \notin Vowels)})

syllableCount(word) ==
  LET w == LettersOnly(word)
      stripped == IF Len(w) > 0 /\ w[Len(w)] = "e" THEN SubSeq(w, 1, Len(w) - 1) ELSE w
  IN  IF w = <<>> THEN 0 ELSE Max(1, vowelGroups(stripped))

syllablesOf(wordsArr) == SumSeq([i \in 1..Len(wordsArr) |-> syllableCount(wordsArr[i])])

\* the grade with 0 returned for a text without a word
fkGradeZeroWithoutWords(text) ==
  LET sentsArr == sentences(text)
      wordsArr == tokenizeWords(text)
      words == IF Len(wordsArr) = 0 THEN 1 ELSE Len(wordsArr)
      sents == IF Len(sentsArr) = 0 THEN 1 ELSE Len(sentsArr)
      syllables == syllablesOf(wordsArr)
  IN  IF Len(wordsArr) = 0 THEN 0
      ELSE Fp(39 * words, 100 * sents) + Fp(118 * syllables, 10 * words) - Fp(1559, 100)

fkGrade(text) ==
  LET sentsArr == sentences(text)
      wordsArr == tokenizeWords(text)
      words == IF Len(wordsArr) = 0 THEN 1 ELSE Len(wordsArr)
      sents == IF Len(sentsArr) = 0 THEN 1 ELSE Len(sentsArr)
      syllables == syllablesOf(wordsArr)
  IN  Fp(39 * words, 100 * sents) + Fp(118 * syllables, 10 * words) - Fp(1559, 100)

\* readabilityScore without its Math.abs
readabilityScoreSigned(text) ==
  LET grade == fkGrade(text)
      target == 10
      span == 6
      raw == SCALE - Min(SCALE, RoundDiv(grade - target * SCALE, span))
  IN  [score |-> clamp01(raw), grade |-> grade]

readabilityScore(text) ==
  LET grade == fkGrade(text)
      target == 10
      span == 6
      raw == SCALE - Min(SCALE, RoundDiv(Abs(grade - target * SCALE), span))
  IN  [score |-> clamp01(raw), grade |-> grade]

\* ------------------------------------------------------------ coherence

\* the index of the \S that ends a match of ([-•*]|\d+\.)\s+\S (or, with
\* headings, of #{1,6}\s+\S) whose marker starts at m; 0 when there is none
markerMatchEnd(text, m, headings) ==
  LET d == EndOfRun(text, m, Digits)
      h == EndOfRun(text, m, {"#"})
      k == IF m <= Len(text) /\ text[m] \in {"-", "*", BULLET} THEN m
           ELSE IF d >= m /\ d < Len(text) /\ text[d + 1] = "." THEN d + 1
           ELSE IF headings /\ h >= m /\ h - m + 1 <= 6 THEN h
           ELSE 0
      e == EndOfRun(text, k + 1, WhiteSpace)
  IN  IF k > 0 /\ e > k /\ e < Len(text) THEN e + 1 ELSE 0

\* /(^|\n)#{1,6}\s+\S|(^|\n)\d+\.\s+\S|(^|\n)[-•*]\s+\S/.test(text)
hasHeadings(text) ==
  \E p \in 0..Len(text) :
    /\ (p = 0 \/ text[p] = LF)
    /\ markerMatchEnd(text, p + 1, TRUE) > 0

\* the index a match of /(^|\n)([-•*]|\d+\.)\s+\S/ that starts at c ends at (0
\* when none starts there): at 1 the marker may be the first character
listMatchEnd(text, c) ==
  LET atStart == IF c = 1 THEN markerMatchEnd(text, 1, FALSE) ELSE 0
      atLF == IF text[c] = LF THEN markerMatchEnd(text, c + 1, FALSE) ELSE 0
  IN  IF atStart > 0 THEN atStart ELSE atLF

\* (text.match(/(^|\n)([-•*]|\d+\.)\s+\S/g) || []).length: the matches are
\* counted from the left, each search starting after the previous match
RECURSIVE listLinesFrom(_, _, _)
listLinesFrom(text, starts, i) ==
  LET next == {c \in starts : c >= i}
  IN  IF next = {} THEN 0
      ELSE LET c == CHOOSE x \in next : \A y \in next : x <= y
           IN  1 + listLinesFrom(text, starts, listMatchEnd(text, c) + 1)

listLines(text) ==
  listLinesFrom(text, {c \in 1..Len(text) : listMatchEnd(text, c) > 0}, 1)

\* the penalty at 0.25
paraPenaltyQuarter(paras) ==
  IF \E i \in 1..Len(paras) : Len(paras[i]) > 600 /\ LF \notin Range(paras[i])
  THEN Fp(25, 100) ELSE 0

\* paragraphs.some((p) => p.length > 600 && !/\n/.test(p)) ? 0.1 : 0
paraPenalty(paras) ==
  IF \E i \in 1..Len(paras) : Len(paras[i]) > 600 /\ LF \notin Range(paras[i])
  THEN Fp(1, 10) ELSE 0

\* the reduce with the lexicon holding the phrase and not its two words:
\* "in" and "conclusion" alone are no transitions
transCountWithoutIn(sents) ==
  Cardinality({i \in 1..Len(sents) :
                 Range(tokenizeWords(sents[i]))
                   \cap (TransLexList \ {<<"i", "n">>, <<"c", "o", "n", "c", "l", "u", "s", "i", "o", "n">>})
                 # {}})

\* sentences holding at least one token of the transition lexicon
transCount(sents) ==
  Cardinality({i \in 1..Len(sents) : Range(tokenizeWords(sents[i])) \cap TransLexList # {}})

\* Math.min(1, transCount / Math.max(1, sents.length - 1))
transScore(sents) == Min(SCALE, Fp(transCount(sents), Max(1, Len(sents) - 1)))

\* the flat score with the bound at tokens >= 40
flatCoherenceFromForty(tokens) == clamp01(IF tokens >= 40 THEN Fp(6, 10) ELSE Fp(5, 10))

\* clamp01(tokens > 40 ? 0.6 : 0.5)
flatCoherence(tokens) == clamp01(IF tokens > 40 THEN Fp(6, 10) ELSE Fp(5, 10))

contentSet(sentence) == Range(contentWords(tokenizeWords(sentence)))

\* sims: the similarity of each sentence with the next
sentenceSims(sents) ==
  [i \in 1..(Len(sents) - 1) |-> jaccard(contentSet(sents[i]), contentSet(sents[i + 1]))]

\* 0.6 * mean + 0.2 * stability, of at least one similarity
lexicalCohesion(sims) ==
  LET mean == avg(sims)
      variance ==
        RoundDiv(SumSeq([i \in 1..Len(sims) |-> Mul(sims[i] - mean, sims[i] - mean)]),
                 Len(sims))
      stability == SCALE - Min(SCALE, variance * 3)
  IN  Mul(Fp(6, 10), mean) + Mul(Fp(2, 10), stability)

calculateCoherenceScore(text) ==
  LET sents == sentences(text)
      paras == paragraphs(text)
      avgSentPerPara == Fp(Len(sents), Max(1, Len(paras)))
      structureBonus ==
        (IF hasHeadings(text) THEN Fp(12, 100) ELSE 0)
        + Min(Fp(12, 100), listLines(text) * Fp(2, 100))
        + Mul(clamp01(SCALE - RoundDiv(Abs(avgSentPerPara - 4 * SCALE), 6)), Fp(1, 10))
      cohesion ==
        clamp01(lexicalCohesion(sentenceSims(sents))
                + Mul(Fp(1, 10), transScore(sents)) + structureBonus)
  IN  IF Len(sents) <= 1
      THEN flatCoherence(Len(tokenizeWords(text)))
      ELSE clamp01(cohesion - paraPenalty(paras))

\* ------------------------------------------------------------ length fit

\* reqCount without its Math.min(10, ...)
reqCountOfUncapped(prmpt) ==
  LET reqs == extractRequirements(prmpt)
  IN  IF Len(reqs) = 0 THEN 1 ELSE Len(reqs)

\* Math.min(10, reqs.length || 1)
reqCountOf(prmpt) ==
  LET reqs == extractRequirements(prmpt)
  IN  Min(10, IF Len(reqs) = 0 THEN 1 ELSE Len(reqs))

\* the target without its base: perReq * reqCount
lengthTargetWithoutBase(prmpt) ==
  LET perReq == 60
  IN  Max(60, Min(1200, perReq * reqCountOf(prmpt)))

\* Math.max(60, Math.min(1200, base + perReq * reqCount))
lengthTarget(prmpt) ==
  LET base == 100
      perReq == 60
  IN  Max(60, Min(1200, base + perReq * reqCountOf(prmpt)))

hardMinOf(target) == MathFloor(target * 5, 10)

hardMaxOf(target) == MathCeil(target * 18, 10)

\* the penalty with the branch over hardMax divided by hardMin, as the branch above it
lengthPenaltyCopied(responseWords, target) ==
  LET hardMin == hardMinOf(target)
      hardMax == hardMaxOf(target)
  IN  IF responseWords > hardMax THEN Fp(responseWords - hardMax, hardMin)
      ELSE IF responseWords < hardMin THEN Fp(hardMin - responseWords, hardMin)
      ELSE 0

lengthPenalty(responseWords, target) ==
  LET hardMin == hardMinOf(target)
      hardMax == hardMaxOf(target)
  IN  IF responseWords > hardMax THEN Fp(responseWords - hardMax, hardMax)
      ELSE IF responseWords < hardMin THEN Fp(hardMin - responseWords, hardMin)
      ELSE 0

\* Math.min(0.9, 0.28 + 0.0004 * target)
lengthSigma(target) == Min(Fp(9, 10), Fp(28, 100) + Fp(4 * target, 10000))

\* Math.exp(-Math.pow(ratio - 1, 2) / (2 * sigma * sigma))
lengthBell(responseWords, target) ==
  LET ratio == Fp(responseWords, target)
      sigma == lengthSigma(target)
  IN  MathExpNeg(Div(Mul(ratio - SCALE, ratio - SCALE), 2 * Mul(sigma, sigma)))

\* the Gaussian of the ratio, with the ramp for answers under 40 words
lengthGaussian(responseWords, target) ==
  LET score == lengthBell(responseWords, target)
  IN  IF responseWords < 40 THEN Mul(score, Fp(responseWords, 40)) ELSE score

calculateLengthScore(text, prmpt) ==
  LET responseWords == Len(tokenizeWords(text))
      target == lengthTarget(prmpt)
      sentCount == Len(sentences(text))
      paraCount == IF Len(paragraphs(text)) = 0 THEN 1 ELSE Len(paragraphs(text))
      structureBonus == clamp01(Fp(sentCount, paraCount * 6))
  IN  IF responseWords = 0 THEN 0
      ELSE clamp01(Mul(Mul(lengthGaussian(responseWords, target),
                           SCALE - Mul(Fp(6, 10), lengthPenalty(responseWords, target))),
                       Fp(9, 10) + Mul(Fp(1, 10), structureBonus)))

\* ------------------------------------------------------------ vocabulary

\* freq[w] = (freq[w] ?? 0) + 1 over the words: the count of each word
wordFreq(words) ==
  [w \in Range(words) |-> Cardinality({i \in 1..Len(words) : words[i] = w})]

\* A key that an empty object literal inherits from Object.prototype is not
\* nullish before its first assignment, so its entry never becomes a number.
InheritedKeys == {<<"c","o","n","s","t","r","u","c","t","o","r">>}

\* Object.values(freq).filter((c) => c === 1).length
\* the filter with c === 2: the words that occur twice
hapaxCountTwice(words) ==
  LET freq == wordFreq(words)
  IN  Cardinality({w \in DOMAIN freq : freq[w] = 2 /\ w \notin InheritedKeys})

hapaxCount(words) ==
  LET freq == wordFreq(words)
  IN  Cardinality({w \in DOMAIN freq : freq[w] = 1 /\ w \notin InheritedKeys})

\* calculateVocabularyRichness without its early return for N = 0
calculateVocabularyRichnessNoGuard(text) ==
  LET tokens == tokenizeWords(text)
      words == contentWords(tokens)
      N == Len(words)
      unique == Cardinality(Range(words))
      ttr == Fp(unique, Max(1, N))
      hapax == Fp(hapaxCount(words), Max(1, unique))
      lengthDamp == Min(SCALE, RoundDiv(MathLog10(N + 10), 2))
      base == clamp01(Mul(Fp(7, 10), ttr) + Mul(Fp(3, 10), hapax))
      score == Mul(base, lengthDamp) + Mul(Fp(2, 10), SCALE - lengthDamp)
  IN  clamp01(score)

calculateVocabularyRichness(text) ==
  LET tokens == tokenizeWords(text)
      words == contentWords(tokens)
      N == Len(words)
      unique == Cardinality(Range(words))
      ttr == Fp(unique, N)
      hapax == Fp(hapaxCount(words), Max(1, unique))
      lengthDamp == Min(SCALE, RoundDiv(MathLog10(N + 10), 2))
      base == clamp01(Mul(Fp(7, 10), ttr) + Mul(Fp(3, 10), hapax))
      score == Mul(base, lengthDamp) + Mul(Fp(2, 10), SCALE - lengthDamp)
  IN  IF N = 0 THEN 0 ELSE clamp01(score)

\* ------------------------------------------------------------ repetition

\* bigrams[bg] = (bigrams[bg] ?? 0) + 1 for bg = w[i] + " " + w[i + 1]
bigramCounts(w) ==
  LET keys == {<<w[i], w[i + 1]>> : i \in 1..(Len(w) - 1)}
  IN  [bg \in keys |-> Cardinality({i \in 1..(Len(w) - 1) : <<w[i], w[i + 1]>> = bg})]

RECURSIVE SumOver(_, _)
SumOver(f, S) ==
  IF S = {} THEN 0
  ELSE LET x == CHOOSE y \in S : TRUE IN f[x] + SumOver(f, S \ {x})

\* the reduce adding b where the code adds b - 1
bigramRepeatsWhole(w) ==
  LET bigrams == bigramCounts(w)
  IN  SumOver(bigrams, {bg \in DOMAIN bigrams : bigrams[bg] > 1})

\* Object.values(bigrams).filter((c) => c > 1).reduce((a, b) => a + (b - 1), 0)
bigramRepeats(w) ==
  LET bigrams == bigramCounts(w)
      over == [bg \in DOMAIN bigrams |-> bigrams[bg] - 1]
  IN  SumOver(over, {bg \in DOMAIN bigrams : bigrams[bg] > 1})

\* repetitionPenaltyScore with the early return at w.length < 5
repetitionPenaltyScoreUnderFive(text) ==
  LET w == tokenizeWords(text)
      repeats == bigramRepeats(w)
      penalty == Min(SCALE, Fp(12 * repeats, Max(12, Len(w))))
  IN  IF Len(w) < 5 THEN SCALE ELSE SCALE - penalty

\* repeats / Math.max(1, w.length / 12), which is 12 * repeats / max(12, w.length)
repetitionPenaltyScore(text) ==
  LET w == tokenizeWords(text)
      repeats == bigramRepeats(w)
      penalty == Min(SCALE, Fp(12 * repeats, Max(12, Len(w))))
  IN  IF Len(w) < 6 THEN SCALE ELSE SCALE - penalty

\* ------------------------------------------------------------ divisions

\* A division the scorers evaluate: where it stands, and its denominator as the
\* code computes it (fixed-point where it is a fraction).
Division(at, den) == [at |-> at, den |-> den]

\* the divisions of the coherence scorer with jaccard dividing by the size of the
\* union as it is, without || 1
coherenceDivisionsUnguarded(text) ==
  LET sents == sentences(text)
      pairs == 1..(Len(sents) - 1)
      paras == paragraphs(text)
  IN  IF Len(sents) <= 1 THEN {}
      ELSE {Division("jaccard: inter / uni",
                     Cardinality(contentSet(sents[i]) \cup contentSet(sents[i + 1]))) :
              i \in pairs}
           \cup {Division("avg: / a.length", Cardinality(pairs)),
                 Division("variance: / sims.length", Cardinality(pairs)),
                 Division("avgSentPerPara: / Math.max(1, paragraphs.length)",
                          Max(1, Len(paras))),
                 Division("transScore: / Math.max(1, sents.length - 1)",
                          Max(1, Len(sents) - 1))}

\* jaccard (inter / uni, uni = size || 1), avg and the divisions of
\* calculateCoherenceScore, which are evaluated for two sentences or more
coherenceDivisions(text) ==
  LET sents == sentences(text)
      pairs == 1..(Len(sents) - 1)
      paras == paragraphs(text)
      size(i) == Cardinality(contentSet(sents[i]) \cup contentSet(sents[i + 1]))
  IN  IF Len(sents) <= 1 THEN {}
      ELSE {Division("jaccard: inter / uni", IF size(i) = 0 THEN 1 ELSE size(i)) :
              i \in pairs}
           \cup {Division("avg: / a.length", Cardinality(pairs)),
                 Division("variance: / sims.length", Cardinality(pairs)),
                 Division("avgSentPerPara: / Math.max(1, paragraphs.length)",
                          Max(1, Len(paras))),
                 Division("transScore: / Math.max(1, sents.length - 1)",
                          Max(1, Len(sents) - 1))}

\* the divisions of calculateLengthScore, evaluated after the early return for an
\* empty response; each penalty divides only on its own side of the range
lengthDivisions(text, prmpt) ==
  LET responseWords == Len(tokenizeWords(text))
      target == lengthTarget(prmpt)
      sigma == Min(Fp(9, 10), Fp(28, 100) + Fp(4 * target, 10000))
      hardMin == hardMinOf(target)
      hardMax == hardMaxOf(target)
      paraCount == IF Len(paragraphs(text)) = 0 THEN 1 ELSE Len(paragraphs(text))
  IN  IF responseWords = 0 THEN {}
      ELSE {Division("ratio: responseWords / target", target),
            Division("score: / (2 * sigma * sigma)", 2 * Mul(sigma, sigma)),
            Division("structureBonus: sentCount / paraCount", paraCount)}
           \cup (IF responseWords < hardMin
                 THEN {Division("penalty: / hardMin", hardMin)} ELSE {})
           \cup (IF responseWords > hardMax
                 THEN {Division("penalty: / hardMax", hardMax)} ELSE {})

\* the divisions of calculateVocabularyRichness, evaluated after the early return
\* for N = 0
vocabularyDivisions(text) ==
  LET words == contentWords(tokenizeWords(text))
      N == Len(words)
      unique == Cardinality(Range(words))
  IN  IF N = 0 THEN {}
      ELSE {Division("ttr: unique / N", N),
            Division("hapax: / Math.max(1, unique)", Max(1, unique))}

\* the division of repetitionPenaltyScore, evaluated for six tokens or more
repetitionDivisions(text) ==
  LET w == tokenizeWords(text)
  IN  IF Len(w) < 6 THEN {}
      ELSE {Division("penalty: repeats / Math.max(1, w.length / 12)",
                     Max(SCALE, Fp(Len(w), 12)))}

\* the divisions of fkGrade: words = wordsArr.length || 1, sents = sentsArr.length || 1
gradeDivisions(text) ==
  LET wordsArr == tokenizeWords(text)
      sentsArr == sentences(text)
  IN  {Division("fkGrade: words / sents", IF Len(sentsArr) = 0 THEN 1 ELSE Len(sentsArr)),
       Division("fkGrade: syllables / words", IF Len(wordsArr) = 0 THEN 1 ELSE Len(wordsArr))}

\* every division with a computed denominator that calculateMetrics(resp, prmpt) evaluates
divisions(resp, prmpt) ==
  coherenceDivisions(resp) \cup lengthDivisions(resp, prmpt) \cup vocabularyDivisions(resp)
  \cup repetitionDivisions(resp) \cup gradeDivisions(resp)

\* ------------------------------------------------------------ aggregator

WeightKeys == {"coherence", "length", "vocab", "repetition", "readability"}

\* the value DEFAULT_WEIGHTS is initialised with
DefaultWeightTable ==
  [coherence |-> Finite(Fp(3, 10)),
   length |-> Finite(Fp(2, 10)),
   vocab |-> Finite(Fp(25, 100)),
   repetition |-> Finite(Fp(1, 10)),
   readability |-> Finite(Fp(15, 100))]

\* const w = { ...DEFAULT_WEIGHTS, ...weights }: w is a fresh object, and the
\* two objects spread into it are left as they were
\* the spread with its operands in the other order: { ...weights, ...DEFAULT_WEIGHTS }
spreadWeightsDefaultsLast(defaults, overrides) ==
  [w |-> [k \in DOMAIN defaults \cup DOMAIN overrides |->
            IF k \in DOMAIN defaults THEN defaults[k] ELSE overrides[k]],
   defaults |-> defaults,
   overrides |-> overrides]

\* the merge done in place: Object.assign(DEFAULT_WEIGHTS, weights)
spreadWeightsInPlace(defaults, overrides) ==
  LET merged == [k \in DOMAIN defaults \cup DOMAIN overrides |->
                   IF k \in DOMAIN overrides THEN overrides[k] ELSE defaults[k]]
  IN  [w |-> merged, defaults |-> merged, overrides |-> overrides]

\* the merge written back to the argument: Object.assign(weights, { ...DEFAULT_WEIGHTS, ...weights })
spreadWeightsIntoArgument(defaults, overrides) ==
  LET merged == [k \in DOMAIN defaults \cup DOMAIN overrides |->
                   IF k \in DOMAIN overrides THEN overrides[k] ELSE defaults[k]]
  IN  [w |-> merged, defaults |-> defaults, overrides |-> merged]

spreadWeights(defaults, overrides) ==
  [w |-> [k \in DOMAIN defaults \cup DOMAIN overrides |->
            IF k \in DOMAIN overrides THEN overrides[k] ELSE defaults[k]],
   defaults |-> defaults,
   overrides |-> overrides]

\* reqs.join(", ")
RECURSIVE joinComma(_)
joinComma(reqs) ==
  IF Len(reqs) = 0 THEN <<>>
  ELSE IF Len(reqs) = 1 THEN reqs[1]
  ELSE reqs[1] \o <<",", SP>> \o joinComma(Tail(reqs))

\* the five calls of calculateMetrics that score the response
subScores(resp, prmpt) ==
  [coherence |-> calculateCoherenceScore(resp),
   length |-> calculateLengthScore(resp, prmpt),
   vocab |-> calculateVocabularyRichness(resp),
   repetition |-> repetitionPenaltyScore(resp),
   reqs |-> extractRequirements(prmpt),
   readability |-> readabilityScore(resp)]

\* the weighted sum with the weights of coherence and length exchanged
weightedSumSwapped(s, w) ==
  JsAdd(JsAdd(JsAdd(JsAdd(JsMul(Finite(s.coherence), w.length),
                          JsMul(Finite(s.length), w.coherence)),
                    JsMul(Finite(s.vocab), w.vocab)),
              JsMul(Finite(s.repetition), w.repetition)),
        JsMul(Finite(s.readability.score), w.readability))

weightedSum(s, w) ==
  JsAdd(JsAdd(JsAdd(JsAdd(JsMul(Finite(s.coherence), w.coherence),
                          JsMul(Finite(s.length), w.length)),
                    JsMul(Finite(s.vocab), w.vocab)),
              JsMul(Finite(s.repetition), w.repetition)),
        JsMul(Finite(s.readability.score), w.readability))

\* the object built with fkGrade: readability.score
buildMetricsScoreAsGrade(resp, s, w) ==
  [coherenceScore |-> clamp01(s.coherence),
   lengthScore |-> clamp01(s.length),
   vocabularyRichnessScore |-> clamp01(s.vocab),
   repetitionPenalty |-> clamp01(s.repetition),
   readabilityScore |-> clamp01(s.readability.score),
   overallScore |-> clamp0to100(MathRound100(weightedSum(s, w))),
   details |-> [sentenceCount |-> Len(sentences(resp)),
                wordCount |-> Len(tokenizeWords(resp)),
                requirements |-> joinComma(s.reqs),
                fkGrade |-> s.readability.score]]

\* the object calculateMetrics builds and returns
buildMetrics(resp, s, w) ==
  [coherenceScore |-> clamp01(s.coherence),
   lengthScore |-> clamp01(s.length),
   vocabularyRichnessScore |-> clamp01(s.vocab),
   repetitionPenalty |-> clamp01(s.repetition),
   readabilityScore |-> clamp01(s.readability.score),
   overallScore |-> clamp0to100(MathRound100(weightedSum(s, w))),
   details |-> [sentenceCount |-> Len(sentences(resp)),
                wordCount |-> Len(tokenizeWords(resp)),
                requirements |-> joinComma(s.reqs),
                fkGrade |-> s.readability.grade]]

\* what calculateMetrics returns, given the weight table it finds
calculateMetrics(resp, prmpt, overrides, defaults) ==
  buildMetrics(resp, subScores(resp, prmpt), spreadWeights(defaults, overrides).w)

\* ------------------------------------------------------------ the second copy

\* The scoring code stands a second time in src/unnamed/part_000, lines 149-495.
\* Its lines 175-316 and 358-494 are lines 100-241 and 283-420 of metrics.ts
\* character for character, so the operators above model them as well. What
\* differs is the declared types, the weight table being a second object, and the
\* object calculateMetrics returns, which are modelled here.

\* the value the copy's DEFAULT_WEIGHTS is initialised with
CopyDefaultWeightTable ==
  [coherence |-> Finite(Fp(3, 10)),
   length |-> Finite(Fp(2, 10)),
   vocab |-> Finite(Fp(25, 100)),
   repetition |-> Finite(Fp(1, 10)),
   readability |-> Finite(Fp(15, 100))]

\* the copy's object with fkGrade: clamp01(readability.grade)
buildMetricsCopyClampedGrade(resp, s, w) ==
  [coherenceScore |-> clamp01(s.coherence),
   lengthScore |-> clamp01(s.length),
   vocabularyRichnessScore |-> clamp01(s.vocab),
   repetitionPenalty |-> clamp01(s.repetition),
   readabilityScore |-> clamp01(s.readability.score),
   overallScore |-> clamp0to100(MathRound100(weightedSum(s, w))),
   details |-> [sentenceCount |-> Len(sentences(resp)),
                wordCount |-> Len(tokenizeWords(resp)),
                requirements |-> s.reqs,
                fkGrade |-> clamp01(s.readability.grade)]]

\* the object the copy's calculateMetrics returns: requirements is reqs itself
buildMetricsCopy(resp, s, w) ==
  [coherenceScore |-> clamp01(s.coherence),
   lengthScore |-> clamp01(s.length),
   vocabularyRichnessScore |-> clamp01(s.vocab),
   repetitionPenalty |-> clamp01(s.repetition),
   readabilityScore |-> clamp01(s.readability.score),
   overallScore |-> clamp0to100(MathRound100(weightedSum(s, w))),
   details |-> [sentenceCount |-> Len(sentences(resp)),
                wordCount |-> Len(tokenizeWords(resp)),
                requirements |-> s.reqs,
                fkGrade |-> s.readability.grade]]

\* what the copy's calculateMetrics returns
calculateMetricsCopy(resp, prmpt, overrides) ==
  buildMetricsCopy(resp, subScores(resp, prmpt),
                   spreadWeights(CopyDefaultWeightTable, overrides).w)

\* ------------------------------------------------------------ inputs

\* the concatenation of ss[lo] .. ss[hi], sep between neighbours
RECURSIVE JoinRange(_, _, _, _)
JoinRange(ss, sep, lo, hi) ==
  IF lo > hi THEN <<>>
  ELSE IF lo = hi THEN ss[lo]
  ELSE LET mid == (lo + hi) \div 2
       IN  JoinRange(ss, sep, lo, mid) \o sep \o JoinRange(ss, sep, mid + 1, hi)

Join(ss, sep) == JoinRange(ss, sep, 1, Len(ss))

\* text, n times over
Repeat(text, n) == Join([i \in 1..n |-> text], <<>>)

\* ''
EmptyText == <<>>

\* ' \n '
BlankText == <<SP, LF, SP>>

\* '...'
DotsText == <<".", ".", ".">>

\* 'the a of'
StopwordsText == <<"t", "h", "e", SP, "a", SP, "o", "f">>

\* 'Hello.'
HelloText == <<"H", "e", "l", "l", "o", ".">>

\* 'a a a a a'
FiveTokens == <<"a", SP, "a", SP, "a", SP, "a", SP, "a">>

\* 'a a a a a a'
SixTokens == <<"a", SP, "a", SP, "a", SP, "a", SP, "a", SP, "a">>

\* 'the cat the cat the cat the cat'
TheCatText == <<"t", "h", "e", SP, "c", "a", "t", SP, "t", "h", "e", SP, "c", "a", "t", SP,
   "t", "h", "e", SP, "c", "a", "t", SP, "t", "h", "e", SP, "c", "a", "t">>

\* 'one two one two three four five six seven eight nine ten eleven'
ThirteenTokens == <<"o", "n", "e", SP, "t", "w", "o", SP, "o", "n", "e", SP, "t", "w", "o",
   SP, "t", "h", "r", "e", "e", SP, "f", "o", "u", "r", SP, "f", "i", "v", "e", SP, "s", "i",
   "x", SP, "s", "e", "v", "e", "n", SP, "e", "i", "g", "h", "t", SP, "n", "i", "n", "e", SP,
   "t", "e", "n", SP, "e", "l", "e", "v", "e", "n">>

\* '# Plan\n\nFirst we build. However, the build fails. In short, fix the build!\n- fix it\n- ship it'
ListText == <<"#", SP, "P", "l", "a", "n", LF, LF, "F", "i", "r", "s", "t", SP, "w", "e", SP,
   "b", "u", "i", "l", "d", ".", SP, "H", "o", "w", "e", "v", "e", "r", ",", SP, "t", "h",
   "e", SP, "b", "u", "i", "l", "d", SP, "f", "a", "i", "l", "s", ".", SP, "I", "n", SP, "s",
   "h", "o", "r", "t", ",", SP, "f", "i", "x", SP, "t", "h", "e", SP, "b", "u", "i", "l",
   "d", "!", LF, "-", SP, "f", "i", "x", SP, "i", "t", LF, "-", SP, "s", "h", "i", "p", SP,
   "i", "t">>

\* 'constructor pattern builds objects'
ConstructorText == <<"c", "o", "n", "s", "t", "r", "u", "c", "t", "o", "r", SP, "p", "a",
   "t", "t", "e", "r", "n", SP, "b", "u", "i", "l", "d", "s", SP, "o", "b", "j", "e", "c",
   "t", "s">>

\* 'alpha bravo charlie delta echo foxtrot golf hotel india juliet'
TenWordsText == <<"a", "l", "p", "h", "a", SP, "b", "r", "a", "v", "o", SP, "c", "h", "a", "r", "l", "i",
   "e", SP, "d", "e", "l", "t", "a", SP, "e", "c", "h", "o", SP, "f", "o", "x", "t", "r",
   "o", "t", SP, "g", "o", "l", "f", SP, "h", "o", "t", "e", "l", SP, "i", "n", "d", "i",
   "a", SP, "j", "u", "l", "i", "e", "t">>

\* 'alpha bravo charlie delta echo. foxtrot golf hotel india juliet. alpha ...':
\* twenty sentences in one paragraph of 649 characters, each sharing no word with
\* the next
WallText ==
  Join([i \in 1..20 |->
          IF i % 2 = 1 THEN SubSeq(TenWordsText, 1, 30) \o <<".">>
          ELSE SubSeq(TenWordsText, 32, 62) \o <<".">>],
       <<SP>>)

\* 'tell me a story'
PlainPrompt == <<"t", "e", "l", "l", SP, "m", "e", SP, "a", SP, "s", "t", "o", "r", "y">>

\* 'Write a poem\n- keep it short\n2. rhyme'
ThreeReqPrompt == <<"W", "r", "i", "t", "e", SP, "a", SP, "p", "o", "e", "m", LF, "-", SP,
   "k", "e", "e", "p", SP, "i", "t", SP, "s", "h", "o", "r", "t", LF, "2", ".", SP, "r", "h",
   "y", "m", "e">>

\* '- a\r\nWrite b\r- c'
CrlfPrompt == <<"-", SP, "a", CR, LF, "W", "r", "i", "t", "e", SP, "b", CR, "-", SP, "c">>

\* '- a\n'
BulletLine == <<"-", SP, "a", LF>>

\* '- a'
LineDash == <<"-", SP, "a">>

\* '-a'
LineDashTight == <<"-", "a">>

\* '*\tb'
LineStarTab == <<"*", TAB, "b">>

\* '• c'
LineBullet == <<BULLET, SP, "c">>

\* '12. d'
LineNumbered == <<"1", "2", ".", SP, "d">>

\* '1.5 e'
LineNumberedTight == <<"1", ".", "5", SP, "e">>

\* 'Write f'
LineVerb == <<"W", "r", "i", "t", "e", SP, "f">>

\* 'list-g'
LineVerbHyphen == <<"l", "i", "s", "t", "-", "g">>

\* 'listing h'
LineVerbLonger == <<"l", "i", "s", "t", "i", "n", "g", SP, "h">>

\* 'plain i'
LinePlain == <<"p", "l", "a", "i", "n", SP, "i">>

\* '  explain  '
LineIndented == <<SP, SP, "e", "x", "p", "l", "a", "i", "n", SP, SP>>

\* ' '
LineBlank == <<SP>>

\* the longest generated response, in words
MaxWords == 7

\* the longest generated prompt, in lines
MaxLines == 2

\* the longest prompt of bullet lines, in lines
MaxBullets == 20

\* the keys a generated weights object holds at most
MaxOverrides == 1

\* the longest response spelled out character by character
MaxChars == 5

\* the words after the marker and the transition of the longest one-sentence
\* response: with them its one paragraph is longer than 600 characters
MaxLineWords == 300

\* the longest response of transition words, in words
MaxTransitionWords == 4

\* the calls one caller makes in a row
MaxCalls == 3

\* the invocations in flight at once
NumInvocations == 2

WordPool == {<<"t", "h", "e">>, <<"c", "a", "t", ".">>}

\* every text of at most MaxWords words of WordPool, a space between words
GeneratedResponses ==
  {Join(ws, <<SP>>) : ws \in UNION {[1..n -> WordPool] : n \in 0..MaxWords}}

\* the characters of the spelled responses: a letter, a terminator, a space, a newline
CharPool == {"a", ".", SP, LF}

\* every text of at most MaxChars characters of CharPool
SpelledResponses == UNION {[1..n -> CharPool] : n \in 0..MaxChars}

\* '- however a a ... a': one sentence of n + 2 tokens that starts with a list
\* marker and holds a transition
StructuredLine(n) ==
  Join(<<<<"-">>, <<"h", "o", "w", "e", "v", "e", "r">>>> \o [i \in 1..n |-> <<"a">>], <<SP>>)

\* one-sentence responses of 2, 40, 41 and MaxLineWords + 2 tokens
OneSentenceResponses == {StructuredLine(n) : n \in {0, 38, 39, MaxLineWords}}

\* 'in' is in the transition lexicon and ends no sentence, 'on.' is not in it,
\* 'thus.' is in it
TransitionPool == {<<"i", "n">>, <<"o", "n", ".">>, <<"t", "h", "u", "s", ".">>}

\* every text of at most MaxTransitionWords words of TransitionPool
TransitionResponses ==
  {Join(ws, <<SP>>) : ws \in UNION {[1..n -> TransitionPool] : n \in 0..MaxTransitionWords}}

\* 'a a ... a': one sentence of n words
WordsLine(n) == Join([i \in 1..n |-> <<"a">>], <<SP>>)

\* the word counts on the two sides of hardMin and hardMax, for the targets 160
\* (80 and 288) and 280 (140 and 504)
EdgeWordCounts == {79, 80, 139, 140, 288, 289, 504, 505}

EdgeResponses == {WordsLine(n) : n \in EdgeWordCounts}

CuratedResponses ==
  {EmptyText, BlankText, DotsText, StopwordsText, HelloText, FiveTokens, SixTokens,
   TheCatText, ThirteenTokens, ListText, ConstructorText, TenWordsText}

LinePool ==
  {LineDash, LineDashTight, LineStarTab, LineBullet, LineNumbered, LineNumberedTight,
   LineVerb, LineVerbHyphen, LineVerbLonger, LinePlain, LineIndented, LineBlank}

\* every prompt of at most MaxLines lines of LinePool
GeneratedPrompts ==
  {Join(ls, <<LF>>) : ls \in UNION {[1..n -> LinePool] : n \in 0..MaxLines}}

\* the prompts of 0 .. MaxBullets bullet lines
BulletPrompts == {Repeat(BulletLine, n) : n \in 0..MaxBullets}

CuratedPrompts == {EmptyText, BlankText, PlainPrompt, ThreeReqPrompt, CrlfPrompt}

WeightValues ==
  {Finite(0), Finite(Fp(1, 2)), Finite(SCALE), Finite(2 * SCALE), Finite(-SCALE),
   NaN, PosInfinity, NegInfinity, Undefined}

\* the five keys of Weights, and one key that is none of them
OverrideKeys == WeightKeys \cup {"other"}

\* every weights object of at most MaxOverrides keys
GeneratedWeights ==
  UNION {[D -> WeightValues] : D \in {d \in SUBSET OverrideKeys : Cardinality(d) <= MaxOverrides}}

NoOverrides == <<>>

AllWeights(v) == [k \in WeightKeys |-> v]

CoherenceOnly == [AllWeights(Finite(0)) EXCEPT !["coherence"] = Finite(SCALE)]

CuratedWeights ==
  {NoOverrides, CoherenceOnly, AllWeights(Finite(0)), AllWeights(Finite(2 * SCALE)),
   AllWeights(Finite(-SCALE)), [length |-> Finite(SCALE), vocab |-> Finite(0)]}

\* the calls checked: each axis in full beside a few values of the others, and
\* the curated values in every combination
Inputs ==
  (GeneratedResponses \X {PlainPrompt} \X {NoOverrides})
  \cup (SpelledResponses \X {PlainPrompt} \X {NoOverrides})
  \cup ((OneSentenceResponses \cup TransitionResponses) \X {PlainPrompt} \X {NoOverrides})
  \cup (EdgeResponses \X {PlainPrompt, ThreeReqPrompt} \X {NoOverrides})
  \cup ({WallText} \X {PlainPrompt, ThreeReqPrompt} \X {NoOverrides, CoherenceOnly})
  \cup ({HelloText} \X (GeneratedPrompts \cup BulletPrompts) \X {NoOverrides})
  \cup ({HelloText, ListText} \X {PlainPrompt} \X GeneratedWeights)
  \cup (CuratedResponses \X CuratedPrompts \X CuratedWeights)

\* the calls of the callers that call more than once, or at once
CallInputs == {HelloText, TheCatText} \X {PlainPrompt} \X {NoOverrides, CoherenceOnly}

\* ------------------------------------------------------------ state machine

NoMetrics ==
  [coherenceScore |-> 0, lengthScore |-> 0, vocabularyRichnessScore |-> 0,
   repetitionPenalty |-> 0, readabilityScore |-> 0, overallScore |-> Finite(0),
   details |-> [sentenceCount |-> 0, wordCount |-> 0, requirements |-> <<>>, fkGrade |-> 0]]

NoScores ==
  [coherence |-> 0, length |-> 0, vocab |-> 0, repetition |-> 0, reqs |-> <<>>,
   readability |-> [score |-> 0, grade |-> 0]]

Invocations == 1..NumInvocations

IdleFrame ==
  [pc |-> "idle", response |-> <<>>, prompt |-> <<>>, weights |-> <<>>, given |-> <<>>,
   w |-> DefaultWeightTable, scores |-> NoScores, result |-> NoMetrics]

\* the route, the client and the components before anything has called or
\* rendered them
IdleRoute ==
  [pc |-> "idle", body |-> [parses |-> FALSE, iterable |-> FALSE, parameterSets |-> <<>>],
   i |-> 0, responses |-> <<>>, thrownBy |-> "nothing",
   db |-> [experimentSet |-> <<>>, response |-> <<>>],
   experimentSetId |-> "none",
   reply |-> [status |-> 0, responses |-> <<>>, experimentSetId |-> "none", error |-> "none"]]

\* no error caught yet
NoError == [name |-> "none", code |-> "none", status |-> 0]

\* no ExperimentResponse returned yet
NoResponse ==
  [id |-> "none", prompt |-> <<>>, response |-> <<>>, temperature |-> 0, topP |-> 0,
   maxTokens |-> 0, metrics |-> NoMetrics]

IdleGroq ==
  [pc |-> "idle", apiKey |-> FALSE, opts |-> [given |-> FALSE, maxRetries |-> 0],
   config |-> [prompt |-> <<>>, temperature |-> 0, topP |-> 0, maxTokens |-> 0,
               weights |-> <<>>],
   maxRetries |-> 0, attempt |-> 0, requests |-> 0, err |-> NoError,
   returned |-> NoResponse, thrown |-> "nothing"]

\* an effect that has not run: its closure's mounted, and where its async
\* function stands
IdleEffect == [pc |-> "unstarted", mounted |-> FALSE, res |-> "none"]

\* the largest number of times React runs the effect of one component
MaxEffectRuns == 2

EffectRuns == 1..MaxEffectRuns

IdleReportsPage ==
  [pc |-> "idle", loading |-> TRUE, reports |-> <<>>, error |-> "null",
   effects |-> [i \in EffectRuns |-> IdleEffect], runs |-> 0, calls |-> <<>>]

\* the largest number of downloads started on one ExportButtons
MaxDownloads == 3

Downloads == 1..MaxDownloads

\* a call of download that has not been made
IdleDownload == [pc |-> "unstarted", format |-> "none"]

IdleExportButtons ==
  [pc |-> "idle", loading |-> FALSE, error |-> "null", success |-> "null",
   disabled |-> FALSE, downloads |-> [d \in Downloads |-> IdleDownload], started |-> 0,
   timers |-> 0]

\* the largest number of experiments submitted on one ExperimentPage
MaxSubmits == 3

Submits == 1..MaxSubmits

\* a call of handleExperiment that has not been made
IdleSubmit == [pc |-> "unstarted", res |-> "none", outcome |-> "none"]

IdleExperimentPage ==
  [pc |-> "idle", isLoading |-> FALSE, responses |-> <<>>, disabled |-> FALSE,
   submits |-> [r \in Submits |-> IdleSubmit], started |-> 0, setCalls |-> 0]

\* everything but the parts named in active is idle
HostIdle(active) ==
  /\ "route" \in active \/ route = IdleRoute
  /\ "groq" \in active \/ groq = IdleGroq
  /\ "reportsPage" \in active \/ reportsPage = IdleReportsPage
  /\ "exportButtons" \in active \/ exportButtons = IdleExportButtons
  /\ "experimentPage" \in active \/ experimentPage = IdleExperimentPage

\* no call of calculateMetrics is made or in flight
MetricsIdle ==
  /\ response = <<>>
  /\ prompt = <<>>
  /\ weights = <<>>
  /\ result = NoMetrics
  /\ pc = "done"
  /\ ncalls = 0
  /\ seen = <<>>
  /\ frames = [i \in Invocations |-> IdleFrame]

\* the module is loaded: its two module-level objects hold their initial values
ModuleInit ==
  /\ DEFAULT_WEIGHTS = DefaultWeightTable
  /\ STOPWORDS = StopwordList

\* one caller, about to call calculateMetrics(response, prompt, weights)
CallerInit(inputs) ==
  /\ \E in \in inputs :
       /\ response = in[1]
       /\ prompt = in[2]
       /\ weights = in[3]
  /\ result = NoMetrics
  /\ pc = "ready"
  /\ ncalls = 0
  /\ seen = <<>>

Init ==
  /\ ModuleInit
  /\ CallerInit(Inputs)
  /\ frames = [i \in Invocations |-> IdleFrame]
  /\ HostIdle({})

\* calculateMetrics(response, prompt, weights), from call to return
Calculate ==
  /\ pc = "ready"
  /\ LET spread == spreadWeights(DEFAULT_WEIGHTS, weights)
         out == buildMetrics(response, subScores(response, prompt), spread.w)
     IN  /\ DEFAULT_WEIGHTS' = spread.defaults
         /\ weights' = spread.overrides
         /\ result' = out
         /\ seen' = Append(seen, [response |-> response, prompt |-> prompt,
                                   weights |-> weights, result |-> out])
  /\ pc' = "done"
  /\ ncalls' = ncalls + 1
  /\ UNCHANGED <<STOPWORDS, response, prompt, frames>>
  /\ UNCHANGED hostVars

Next == Calculate

Spec == Init /\ [][Next]_vars

\* ---- a caller that calls again and again

InitCalls ==
  /\ ModuleInit
  /\ CallerInit(CallInputs)
  /\ frames = [i \in Invocations |-> IdleFrame]
  /\ HostIdle({})

\* the caller makes its next call, with arguments of its choice
NextCall ==
  /\ pc = "done"
  /\ ncalls < MaxCalls
  /\ \E in \in CallInputs :
       /\ response' = in[1]
       /\ prompt' = in[2]
       /\ weights' = in[3]
  /\ pc' = "ready"
  /\ UNCHANGED <<DEFAULT_WEIGHTS, STOPWORDS, result, ncalls, seen, frames>>
  /\ UNCHANGED hostVars

NextCalls == Calculate \/ NextCall

SpecCalls == InitCalls /\ [][NextCalls]_vars

\* ---- a caller that hands the same arguments to both copies

\* the copy's calculateMetrics(response, prompt, weights), from call to return,
\* called once metrics.ts has returned
CalculateCopy ==
  /\ pc = "done"
  /\ Len(seen) = 1
  /\ LET spread == spreadWeights(CopyDefaultWeightTable, weights)
         out == buildMetricsCopy(response, subScores(response, prompt), spread.w)
     IN  /\ weights' = spread.overrides
         /\ seen' = Append(seen, [response |-> response, prompt |-> prompt,
                                   weights |-> weights, result |-> out])
  /\ pc' = "compared"
  /\ ncalls' = ncalls + 1
  /\ UNCHANGED <<DEFAULT_WEIGHTS, STOPWORDS, response, prompt, result, frames>>
  /\ UNCHANGED hostVars

NextCopies == Calculate \/ CalculateCopy

SpecCopies == Init /\ [][NextCopies]_vars

\* ---- invocations in flight at once, interleaved statement by statement

InitConcurrent ==
  /\ ModuleInit
  /\ response = <<>>
  /\ prompt = <<>>
  /\ weights = <<>>
  /\ result = NoMetrics
  /\ pc = "done"
  /\ ncalls = 0
  /\ seen = <<>>
  /\ frames \in [Invocations ->
                   {[IdleFrame EXCEPT !.pc = "called", !.response = in[1],
                                      !.prompt = in[2], !.weights = in[3],
                                      !.given = in[3]] :
                      in \in CallInputs}]
  /\ HostIdle({})

\* const w = { ...DEFAULT_WEIGHTS, ...weights }
StepSpread(i) ==
  /\ frames[i].pc = "called"
  /\ LET spread == spreadWeights(DEFAULT_WEIGHTS, frames[i].weights)
     IN  /\ DEFAULT_WEIGHTS' = spread.defaults
         /\ frames' = [frames EXCEPT ![i].pc = "spread", ![i].w = spread.w,
                                     ![i].weights = spread.overrides]
  /\ UNCHANGED <<STOPWORDS, response, prompt, weights, result, pc, ncalls, seen>>
  /\ UNCHANGED hostVars

\* const coherence = ...; ... const readability = readabilityScore(response)
StepScore(i) ==
  /\ frames[i].pc = "spread"
  /\ frames' = [frames EXCEPT ![i].pc = "scored",
                              ![i].scores = subScores(frames[i].response, frames[i].prompt)]
  /\ UNCHANGED <<metricVars, hostVars>>

\* const weighted = ...; const overall = ...; const metrics = { ... }
StepBuild(i) ==
  /\ frames[i].pc = "scored"
  /\ frames' = [frames EXCEPT ![i].pc = "built",
                              ![i].result = buildMetrics(frames[i].response, frames[i].scores,
                                                         frames[i].w)]
  /\ UNCHANGED <<metricVars, hostVars>>

\* return metrics
StepReturn(i) ==
  /\ frames[i].pc = "built"
  /\ frames' = [frames EXCEPT ![i].pc = "returned"]
  /\ UNCHANGED <<metricVars, hostVars>>

NextConcurrent ==
  \E i \in Invocations : StepSpread(i) \/ StepScore(i) \/ StepBuild(i) \/ StepReturn(i)

SpecConcurrent == InitConcurrent /\ [][NextConcurrent]_vars

\* ------------------------------------------------------------ POST /api/experiment

\* the parameter sets a body may carry
ParameterPool ==
  {[temperature |-> 2, topP |-> 10, maxTokens |-> 256],
   [temperature |-> 9, topP |-> 5, maxTokens |-> 64]}

MaxParameterSets == 2

\* what req.json() may give: no JSON at all, a body whose parameterSets cannot be
\* iterated (absent, null, a number), or a body with a list of parameter sets
Bodies ==
  {[parses |-> FALSE, iterable |-> FALSE, parameterSets |-> <<>>],
   [parses |-> TRUE, iterable |-> FALSE, parameterSets |-> <<>>]}
  \cup {[parses |-> TRUE, iterable |-> TRUE, parameterSets |-> ps] :
          ps \in UNION {[1..n -> ParameterPool] : n \in 0..MaxParameterSets}}

\* the completions the provider may answer with: an id and a content
Completions ==
  {[id |-> "chatcmpl-1", content |-> HelloText],
   [id |-> "chatcmpl-2", content |-> EmptyText]}

\* the object generateResponse returns for a configuration and a completion: the
\* metrics are calculateMetrics(generatedText, prompt)
experimentResponse(config, completion, defaults) ==
  [id |-> completion.id,
   prompt |-> config.prompt,
   response |-> completion.content,
   temperature |-> config.temperature,
   topP |-> config.topP,
   maxTokens |-> config.maxTokens,
   metrics |-> calculateMetrics(completion.content, config.prompt, NoOverrides, defaults)]

\* const config = { prompt, ...params }
configOf(prmpt, params) ==
  [prompt |-> prmpt, temperature |-> params.temperature, topP |-> params.topP,
   maxTokens |-> params.maxTokens]

\* the body's prompt
RoutePrompt == PlainPrompt

\* the row prisma.response.create writes for r under the set id
responseRow(r, id) ==
  [id |-> r.id, experimentSetId |-> id, response |-> r.response, metrics |-> r.metrics]

\* an exception thrown inside the loop is swallowed and the loop goes on
thrownInLoopSkipped(rt, by) == [rt EXCEPT !.i = @ + 1, !.thrownBy = by]

\* an exception thrown inside try leaves it for the catch clause
thrownInLoop(rt, by) == [rt EXCEPT !.pc = "caught", !.thrownBy = by]

\* a request arrives
InitRoute ==
  /\ ModuleInit
  /\ MetricsIdle
  /\ HostIdle({"route"})
  /\ \E b \in Bodies : route = [IdleRoute EXCEPT !.pc = "received", !.body = b]

\* const body = await req.json(); const { prompt, parameterSets } = body;
\* const responses = []; the for statement asks parameterSets for its iterator
RouteParse ==
  /\ route.pc = "received"
  /\ route' = IF ~route.body.parses THEN [route EXCEPT !.pc = "caught", !.thrownBy = "req.json"]
               ELSE IF ~route.body.iterable
                 THEN [route EXCEPT !.pc = "caught", !.thrownBy = "for-of"]
               ELSE [route EXCEPT !.pc = "generating", !.i = 1]
  /\ UNCHANGED <<metricVars, frames, groq, reportsPage, exportButtons, experimentPage>>

\* one turn of the first loop: const result = await generateResponse(config),
\* which returns or throws; responses.push(result)
RouteGenerate ==
  /\ route.pc = "generating"
  /\ route.i <= Len(route.body.parameterSets)
  /\ \/ \E c \in Completions :
          route' = [route EXCEPT
                      !.responses =
                         Append(@, experimentResponse(
                                     configOf(RoutePrompt, route.body.parameterSets[route.i]),
                                     c, DEFAULT_WEIGHTS)),
                      !.i = @ + 1]
     \/ route' = thrownInLoop(route, "generateResponse")
  /\ UNCHANGED <<metricVars, frames, groq, reportsPage, exportButtons, experimentPage>>

\* const experimentSet = await prisma.experimentSet.create(...), which resolves
\* with the row written or rejects with nothing written
RouteCreateSet ==
  /\ route.pc = "generating"
  /\ route.i > Len(route.body.parameterSets)
  /\ \/ route' = [route EXCEPT !.pc = "saving", !.i = 1, !.experimentSetId = "set-1",
                                 !.db.experimentSet = Append(@, "set-1")]
     \/ route' = [route EXCEPT !.pc = "caught", !.thrownBy = "experimentSet.create"]
  /\ UNCHANGED <<metricVars, frames, groq, reportsPage, exportButtons, experimentPage>>

\* one turn of the second loop: await prisma.response.create(...)
RouteCreateResponse ==
  /\ route.pc = "saving"
  /\ route.i <= Len(route.responses)
  /\ \/ route' = [route EXCEPT
                     !.db.response = Append(@, responseRow(route.responses[route.i],
                                                           route.experimentSetId)),
                     !.i = @ + 1]
     \/ route' = [route EXCEPT !.pc = "caught", !.thrownBy = "response.create"]
  /\ UNCHANGED <<metricVars, frames, groq, reportsPage, exportButtons, experimentPage>>

\* return NextResponse.json({ responses, experimentSetId: experimentSet.id })
RouteReturn ==
  /\ route.pc = "saving"
  /\ route.i > Len(route.responses)
  /\ route' = [route EXCEPT !.pc = "replied",
                            !.reply = [status |-> 200, responses |-> route.responses,
                                       experimentSetId |-> route.experimentSetId,
                                       error |-> "none"]]
  /\ UNCHANGED <<metricVars, frames, groq, reportsPage, exportButtons, experimentPage>>

\* catch (error): return NextResponse.json({ error: ... }, { status: 500 })
RouteCatch ==
  /\ route.pc = "caught"
  /\ route' = [route EXCEPT !.pc = "replied",
                            !.reply = [status |-> 500, responses |-> <<>>,
                                       experimentSetId |-> "none",
                                       error |-> "Failed to process experiment"]]
  /\ UNCHANGED <<metricVars, frames, groq, reportsPage, exportButtons, experimentPage>>

NextRoute ==
  RouteParse \/ RouteGenerate \/ RouteCreateSet \/ RouteCreateResponse \/ RouteReturn
  \/ RouteCatch

SpecRoute == InitRoute /\ [][NextRoute]_vars

\* ------------------------------------------------------------ generateResponse

\* the largest maxRetries a caller passes
MaxRetriesGiven == 4

\* opts: without maxRetries, or with one
OptsPool ==
  {[given |-> FALSE, maxRetries |-> 0]}
  \cup {[given |-> TRUE, maxRetries |-> n] : n \in 0..MaxRetriesGiven}

\* the configurations: the prompt and the parameters, without and with weights
ConfigPool ==
  {[prompt |-> PlainPrompt, temperature |-> 2, topP |-> 10, maxTokens |-> 256, weights |-> ws] :
     ws \in {NoOverrides, CoherenceOnly}}

\* the statuses a rejected request may carry (validateStatus accepts 2xx only)
StatusPool == {400, 429, 499, 500, 599}

\* what the try block may throw: axios cancelled, timed out, failed without an
\* answer, or was answered with a status outside 2xx; or the content of the
\* completion is no string and calculateMetrics throws a TypeError
ErrorPool ==
  {[name |-> "CanceledError", code |-> "ERR_CANCELED", status |-> 0],
   [name |-> "AxiosError", code |-> "ECONNABORTED", status |-> 0],
   [name |-> "AxiosError", code |-> "ERR_NETWORK", status |-> 0],
   [name |-> "TypeError", code |-> "none", status |-> 0]}
  \cup {[name |-> "AxiosError", code |-> "ERR_BAD_RESPONSE", status |-> st] : st \in StatusPool}

\* the errors that stand for a request that failed; the TypeError follows a
\* request that succeeded
RequestFailed(err) == err.name \in {"CanceledError", "AxiosError"}

\* the status test with 5xx alone
isRetriableStatusServerOnly(code) ==
  IF code = 0 THEN FALSE ELSE code >= 500 /\ code <= 599

\* isRetriableStatus(code), code being undefined (0 here) without a response
isRetriableStatus(code) ==
  IF code = 0 THEN FALSE ELSE code = 429 \/ (code >= 500 /\ code <= 599)

\* the catch clause with the retry test at attempt <= maxRetries + 1
catchClauseOneMore(g, err) ==
  LET attempt == g.attempt + 1
      caught == [g EXCEPT !.attempt = attempt, !.err = err]
  IN  IF err.name = "CanceledError"
        THEN [caught EXCEPT !.pc = "thrown", !.thrown = "Request canceled."]
      ELSE IF err.code = "ECONNABORTED" /\ attempt > g.maxRetries
        THEN [caught EXCEPT !.pc = "thrown", !.thrown = "Timeout after retries."]
      ELSE IF isRetriableStatus(err.status) /\ attempt <= g.maxRetries + 1
        THEN [caught EXCEPT !.pc = "sleeping"]
      ELSE [caught EXCEPT !.pc = "thrown", !.thrown = "Failed to generate response"]

\* catch (err): attempt++, then the three tests in the order of the code; the
\* locals of the call after it
catchClause(g, err) ==
  LET attempt == g.attempt + 1
      caught == [g EXCEPT !.attempt = attempt, !.err = err]
  IN  IF err.name = "CanceledError"
        THEN [caught EXCEPT !.pc = "thrown", !.thrown = "Request canceled."]
      ELSE IF err.code = "ECONNABORTED" /\ attempt > g.maxRetries
        THEN [caught EXCEPT !.pc = "thrown", !.thrown = "Timeout after retries."]
      ELSE IF isRetriableStatus(err.status) /\ attempt <= g.maxRetries
        THEN [caught EXCEPT !.pc = "sleeping"]
      ELSE [caught EXCEPT !.pc = "thrown", !.thrown = "Failed to generate response"]

\* the object returned with the metrics computed under config.weights
returnedResponseWeighted(config, completion, defaults) ==
  [experimentResponse(config, completion, defaults) EXCEPT
     !.metrics = calculateMetrics(completion.content, config.prompt, config.weights, defaults)]

\* the object generateResponse returns: config.weights is not read
returnedResponse(config, completion, defaults) ==
  experimentResponse(config, completion, defaults)

\* generateResponse(config, opts) is called
InitGenerate ==
  /\ ModuleInit
  /\ MetricsIdle
  /\ HostIdle({"groq"})
  /\ \E key \in BOOLEAN, o \in OptsPool, c \in ConfigPool :
       groq = [IdleGroq EXCEPT !.pc = "called", !.apiKey = key, !.opts = o, !.config = c]

\* the statements before the loop: the test of GROQ_API_KEY, maxRetries, attempt
GenerateEnter ==
  /\ groq.pc = "called"
  /\ groq' = IF ~groq.apiKey
               THEN [groq EXCEPT !.pc = "thrown", !.thrown = "GROQ_API_KEY is not set"]
             ELSE [groq EXCEPT !.pc = "looping", !.attempt = 0,
                               !.maxRetries = IF groq.opts.given THEN groq.opts.maxRetries
                                              ELSE 3]
  /\ UNCHANGED <<metricVars, frames, route, reportsPage, exportButtons, experimentPage>>

\* axios.post(...) is issued and awaited
GeneratePost ==
  /\ groq.pc = "looping"
  /\ groq' = [groq EXCEPT !.pc = "awaiting", !.requests = @ + 1]
  /\ UNCHANGED <<metricVars, frames, route, reportsPage, exportButtons, experimentPage>>

\* the request settles with a completion whose content is a string: the rest of
\* the try block computes the metrics and returns
GenerateReturn ==
  /\ groq.pc = "awaiting"
  /\ \E c \in Completions :
       groq' = [groq EXCEPT !.pc = "returned",
                            !.returned = returnedResponse(groq.config, c, DEFAULT_WEIGHTS)]
  /\ UNCHANGED <<metricVars, frames, route, reportsPage, exportButtons, experimentPage>>

\* the request settles and the try block throws: the catch clause
GenerateCatch ==
  /\ groq.pc = "awaiting"
  /\ \E err \in ErrorPool : groq' = catchClause(groq, err)
  /\ UNCHANGED <<metricVars, frames, route, reportsPage, exportButtons, experimentPage>>

\* await sleep(delay) is over: continue
GenerateContinue ==
  /\ groq.pc = "sleeping"
  /\ groq' = [groq EXCEPT !.pc = "looping"]
  /\ UNCHANGED <<metricVars, frames, route, reportsPage, exportButtons, experimentPage>>

NextGenerate ==
  GenerateEnter \/ GeneratePost \/ GenerateReturn \/ GenerateCatch \/ GenerateContinue

SpecGenerate == InitGenerate /\ [][NextGenerate]_vars

\* the statements of the call run, every request settles (in the catch clause or
\* in the rest of the try block) and every sleep ends
SpecGenerateFair ==
  /\ SpecGenerate
  /\ WF_vars(GenerateEnter)
  /\ WF_vars(GeneratePost)
  /\ WF_vars(GenerateCatch \/ GenerateReturn)
  /\ WF_vars(GenerateContinue)

\* ------------------------------------------------------------ Reports

\* the report summaries the server may list
ReportPool == {"report-1", "report-2"}

MaxReports == 2

\* what res.json() may resolve with: null, an object without sets, or an object
\* with a list of summaries
DataPool ==
  {[isNull |-> TRUE, hasSets |-> FALSE, sets |-> <<>>],
   [isNull |-> FALSE, hasSets |-> FALSE, sets |-> <<>>]}
  \cup {[isNull |-> FALSE, hasSets |-> TRUE, sets |-> l] :
          l \in UNION {[1..n -> ReportPool] : n \in 0..MaxReports}}

\* setReports, setError, setLoading: the state changes and the call is noted
setState(p, name, value) ==
  [p EXCEPT ![name] = value, !.calls = Append(@, <<name, value>>)]

\* finally without its test of mounted
reportsFinallyUntested(p, i) ==
  [setState(p, "loading", FALSE) EXCEPT !.effects[i].pc = "done"]

\* finally { if (mounted) setLoading(false); }, the async function ends
reportsFinally(p, i) ==
  [(IF p.effects[i].mounted THEN setState(p, "loading", FALSE) ELSE p)
     EXCEPT !.effects[i].pc = "done"]

\* catch (err) { ...; if (mounted) setError(...) }, then finally
reportsCatch(p, i) ==
  reportsFinally(IF p.effects[i].mounted
                   THEN setState(p, "error", "Unable to load reports. Please try again later.")
                 ELSE p, i)

\* the component has mounted: useState's initial values, and the effect has run
\* up to await fetch("/api/reports")
InitReports ==
  /\ ModuleInit
  /\ MetricsIdle
  /\ HostIdle({"reportsPage"})
  /\ reportsPage = [IdleReportsPage EXCEPT !.pc = "mounted", !.runs = 1,
                                           !.effects[1] = [IdleEffect EXCEPT !.pc = "fetching",
                                                                          !.mounted = TRUE]]

\* Strict Mode: right after mounting React runs the cleanup and the effect once
\* more, before anything awaited can resume
ReportsRunEffectAgain ==
  /\ reportsPage.pc = "mounted"
  /\ reportsPage.runs < MaxEffectRuns
  /\ \A i \in 1..reportsPage.runs : reportsPage.effects[i].pc = "fetching"
  /\ reportsPage' = [reportsPage EXCEPT
                       !.effects[reportsPage.runs].mounted = FALSE,
                       !.effects[reportsPage.runs + 1] =
                          [IdleEffect EXCEPT !.pc = "fetching", !.mounted = TRUE],
                       !.runs = @ + 1]
  /\ UNCHANGED <<metricVars, frames, route, groq, exportButtons, experimentPage>>

\* the component unmounts: the cleanup of the effect sets mounted = false
ReportsUnmount ==
  /\ reportsPage.pc = "mounted"
  /\ reportsPage' = [reportsPage EXCEPT !.pc = "unmounted",
                                        !.effects[reportsPage.runs].mounted = FALSE]
  /\ UNCHANGED <<metricVars, frames, route, groq, exportButtons, experimentPage>>

\* what await fetch(...) may settle with: a rejection, or a res of some status
FetchOutcomes == {"rejected", "200", "404", "500"}

\* res.ok
resOk(res) == res = "200"

\* await fetch(...) settles: it rejects, or resolves with res; if (!res.ok) throw
ReportsFetchSettles(i) ==
  /\ reportsPage.effects[i].pc = "fetching"
  /\ \E res \in FetchOutcomes :
       LET got == [reportsPage EXCEPT !.effects[i].res = res]
       IN  reportsPage' = IF ~resOk(res) THEN reportsCatch(got, i)
                          ELSE [got EXCEPT !.effects[i].pc = "parsing"]
  /\ UNCHANGED <<metricVars, frames, route, groq, exportButtons, experimentPage>>

\* await res.json() settles: it rejects, or resolves with data; if (!mounted)
\* return; setReports(data.sets ?? []), where data.sets throws for null
ReportsJsonSettles(i) ==
  /\ reportsPage.effects[i].pc = "parsing"
  /\ \/ reportsPage' = reportsCatch(reportsPage, i)
     \/ \E data \in DataPool :
          reportsPage' =
            IF ~reportsPage.effects[i].mounted THEN reportsFinally(reportsPage, i)
            ELSE IF data.isNull THEN reportsCatch(reportsPage, i)
            ELSE reportsFinally(setState(reportsPage, "reports",
                                         IF data.hasSets THEN data.sets ELSE <<>>), i)
  /\ UNCHANGED <<metricVars, frames, route, groq, exportButtons, experimentPage>>

NextReports ==
  \/ ReportsRunEffectAgain
  \/ ReportsUnmount
  \/ \E i \in EffectRuns : ReportsFetchSettles(i) \/ ReportsJsonSettles(i)

SpecReports == InitReports /\ [][NextReports]_vars

\* ------------------------------------------------------------ ExportButtons

\* both buttons clickable whatever loading is
buttonsDisabledNever(p) == FALSE

\* disabled={loading}, as last rendered
buttonsDisabled(p) == p.disabled

\* catch (err) { setError(...) } finally { setLoading(false); setTimeout(...) }
downloadFailed(p, d, message) ==
  [p EXCEPT !.error = message, !.loading = FALSE, !.timers = @ + 1,
            !.downloads[d].pc = "failed"]

\* the component has rendered with useState's initial values
InitExport ==
  /\ ModuleInit
  /\ MetricsIdle
  /\ HostIdle({"exportButtons"})
  /\ exportButtons = [IdleExportButtons EXCEPT !.pc = "rendered"]

\* a click on a button that is not disabled: download(format) runs up to its
\* await fetch(...), and React renders the new state before the next event
ExportClick(format) ==
  /\ exportButtons.pc = "rendered"
  /\ ~buttonsDisabled(exportButtons)
  /\ exportButtons.started < MaxDownloads
  /\ exportButtons' =
       [exportButtons EXCEPT !.error = "null", !.success = "null", !.loading = TRUE,
                             !.disabled = TRUE, !.started = @ + 1,
                             !.downloads[exportButtons.started + 1] =
                                [pc |-> "fetching", format |-> format]]
  /\ UNCHANGED <<metricVars, frames, route, groq, reportsPage, experimentPage>>

\* await fetch(...) settles: it rejects, or resolves with a res that is ok or not
ExportFetchSettles(d) ==
  /\ exportButtons.downloads[d].pc = "fetching"
  /\ \E res \in FetchOutcomes :
       exportButtons' =
         IF res = "rejected" THEN downloadFailed(exportButtons, d, "Failed to fetch")
         ELSE [exportButtons EXCEPT !.downloads[d].pc = IF resOk(res) THEN "readingBlob"
                                                        ELSE "readingText"]
  /\ UNCHANGED <<metricVars, frames, route, groq, reportsPage, experimentPage>>

\* throw new Error(await res.text()): the text arrives, or its reading rejects
ExportTextSettles(d) ==
  /\ exportButtons.downloads[d].pc = "readingText"
  /\ \E message \in {"Report not found", "Export failed"} :
       exportButtons' = downloadFailed(exportButtons, d, message)
  /\ UNCHANGED <<metricVars, frames, route, groq, reportsPage, experimentPage>>

\* await res.blob() settles: the link is clicked and setSuccess called, or the
\* reading rejects; then finally
ExportBlobSettles(d) ==
  /\ exportButtons.downloads[d].pc = "readingBlob"
  /\ \/ exportButtons' = [exportButtons EXCEPT !.success = "Download started",
                                                !.loading = FALSE, !.timers = @ + 1,
                                                !.downloads[d].pc = "succeeded"]
     \/ exportButtons' = downloadFailed(exportButtons, d, "Export failed")
  /\ UNCHANGED <<metricVars, frames, route, groq, reportsPage, experimentPage>>

\* React renders the state set after an await
ExportRender ==
  /\ exportButtons.pc = "rendered"
  /\ exportButtons.disabled # exportButtons.loading
  /\ exportButtons' = [exportButtons EXCEPT !.disabled = exportButtons.loading]
  /\ UNCHANGED <<metricVars, frames, route, groq, reportsPage, experimentPage>>

\* a timer of finally fires: setSuccess(null); setError(null)
ExportTimerFires ==
  /\ exportButtons.timers > 0
  /\ exportButtons' = [exportButtons EXCEPT !.timers = @ - 1, !.success = "null",
                                            !.error = "null"]
  /\ UNCHANGED <<metricVars, frames, route, groq, reportsPage, experimentPage>>

NextExport ==
  \/ \E format \in {"json", "csv"} : ExportClick(format)
  \/ \E d \in Downloads : ExportFetchSettles(d) \/ ExportTextSettles(d) \/ ExportBlobSettles(d)
  \/ ExportRender
  \/ ExportTimerFires

SpecExport == InitExport /\ [][NextExport]_vars

\* ------------------------------------------------------------ ExperimentPage

\* what response.json() may resolve with: null, or an object whose responses is
\* a list of the server's (one response for the error body)
BodyPool ==
  {[isNull |-> TRUE, responses |-> <<>>]}
  \cup {[isNull |-> FALSE, responses |-> l] :
          l \in {<<>>, <<"response-a">>, <<"response-a", "response-b">>}}

\* finally { setIsLoading(false) }, the handler ends with the outcome
handlerEnds(p, r, outcome) ==
  [p EXCEPT !.isLoading = FALSE, !.submits[r].pc = "done", !.submits[r].outcome = outcome]

\* the rest of try with setResponses(data.responses) before the test of response.ok
bodyArrivedUntested(p, r, data) ==
  IF data.isNull THEN handlerEnds(p, r, "threw")
  ELSE handlerEnds([p EXCEPT !.responses = data.responses, !.setCalls = @ + 1], r,
                   IF resOk(p.submits[r].res) THEN "replaced" ELSE "notOk")

\* const data = await response.json() has resolved: if (response.ok)
\* setResponses(data.responses) else console.error("Error:", data.error), either
\* of which throws for null
bodyArrived(p, r, data) ==
  IF data.isNull THEN handlerEnds(p, r, "threw")
  ELSE IF resOk(p.submits[r].res)
    THEN handlerEnds([p EXCEPT !.responses = data.responses, !.setCalls = @ + 1], r, "replaced")
  ELSE handlerEnds(p, r, "notOk")

\* the page has rendered with useState's initial values
InitPage ==
  /\ ModuleInit
  /\ MetricsIdle
  /\ HostIdle({"experimentPage"})
  /\ experimentPage = [IdleExperimentPage EXCEPT !.pc = "rendered"]

\* the form is submitted, its button not being disabled: handleExperiment runs
\* up to its await fetch(...), and React renders isLoading before the next event
PageSubmit ==
  /\ experimentPage.pc = "rendered"
  /\ ~experimentPage.disabled
  /\ experimentPage.started < MaxSubmits
  /\ experimentPage' =
       [experimentPage EXCEPT !.isLoading = TRUE, !.disabled = TRUE, !.started = @ + 1,
                              !.submits[experimentPage.started + 1].pc = "fetching"]
  /\ UNCHANGED <<metricVars, frames, route, groq, reportsPage, exportButtons>>

\* await fetch(...) settles: it rejects, or resolves with a response of some status
PageFetchSettles(r) ==
  /\ experimentPage.submits[r].pc = "fetching"
  /\ \E res \in FetchOutcomes :
       experimentPage' =
         IF res = "rejected" THEN handlerEnds(experimentPage, r, "threw")
         ELSE [experimentPage EXCEPT !.submits[r].pc = "parsing", !.submits[r].res = res]
  /\ UNCHANGED <<metricVars, frames, route, groq, reportsPage, exportButtons>>

\* await response.json() settles: it rejects for a body that is not JSON, or
\* resolves with data
PageJsonSettles(r) ==
  /\ experimentPage.submits[r].pc = "parsing"
  /\ \/ experimentPage' = handlerEnds(experimentPage, r, "notJson")
     \/ \E data \in BodyPool : experimentPage' = bodyArrived(experimentPage, r, data)
  /\ UNCHANGED <<metricVars, frames, route, groq, reportsPage, exportButtons>>

\* React renders the state set after an await
PageRender ==
  /\ experimentPage.pc = "rendered"
  /\ experimentPage.disabled # experimentPage.isLoading
  /\ experimentPage' = [experimentPage EXCEPT !.disabled = experimentPage.isLoading]
  /\ UNCHANGED <<metricVars, frames, route, groq, reportsPage, exportButtons>>

NextPage ==
  \/ PageSubmit
  \/ \E r \in Submits : PageFetchSettles(r) \/ PageJsonSettles(r)
  \/ PageRender

SpecPage == InitPage /\ [][NextPage]_vars

\* ------------------------------------------------------------ properties

\* the call has returned
Returned == pc = "done"

SubScoreNames ==
  {"coherenceScore", "lengthScore", "vocabularyRichnessScore", "repetitionPenalty",
   "readabilityScore"}

\* the five sub-scores of m lie in [0, 1] and its overallScore is an integer of [0, 100]
InRange(m) ==
  /\ \A f \in SubScoreNames : m[f] \in 0..SCALE
  /\ m.overallScore.kind = "finite"
  /\ m.overallScore.val \in 0..100

\* every value the weights object holds under one of the five keys is a finite number
FiniteWeights(wts) == \A k \in DOMAIN wts \cap WeightKeys : wts[k].kind = "finite"

\* C1, as stated: whatever weights object is passed, the five sub-scores returned
\* lie in [0, 1] and overallScore is an integer in [0, 100]
C1_RangeForEveryWeights == Returned => InRange(result)

\* C1, amended: when every value supplied under the five weight keys is a finite
\* number, the five sub-scores returned lie in [0, 1] and overallScore is an
\* integer in [0, 100], for every response and prompt
C1_RangeForFiniteWeights == Returned /\ FiniteWeights(weights) => InRange(result)

\* weights of 2 each take the weighted sum over 1, and the clamp brings overallScore
\* back to 100
C1_ClampActs ==
  /\ Returned
  /\ weights = AllWeights(Finite(2 * SCALE))
  /\ response = ListText
  /\ result.overallScore = Finite(100)

\* the weight calculateMetrics is specified to use for key k
WeightFor(k) == IF k \in DOMAIN weights THEN weights[k] ELSE DefaultWeightTable[k]

\* the nearest integer to 100 * x, halves up
Round100(x) == (200 * x + SCALE) \div (2 * SCALE)

\* round(100 * sum of sub-score times weight), for the sub-scores m holds
OverallOf(m) ==
  LET term(f, k) == JsMul(Finite(m[f]), WeightFor(k))
      total == JsAdd(term("coherenceScore", "coherence"),
                 JsAdd(term("lengthScore", "length"),
                   JsAdd(term("vocabularyRichnessScore", "vocab"),
                     JsAdd(term("repetitionPenalty", "repetition"),
                           term("readabilityScore", "readability")))))
  IN  IF total.kind = "finite" THEN Finite(Max(0, Min(100, Round100(total.val))))
      ELSE IF total.kind = "Infinity" THEN Finite(IF total.val > 0 THEN 100 ELSE 0)
      ELSE total

\* C2: overallScore is clamp_0..100(round(100 * (coherence * w.coherence + length *
\* w.length + vocab * w.vocab + repetition * w.repetition + readability *
\* w.readability))), where each w.key is the caller's value if the key is supplied
\* and the default otherwise, and the weights are used as they are, not normalised
C2_OverallFormula == Returned => result.overallScore = OverallOf(result)

\* two keys supplied, three left to the defaults, on a response whose sub-scores differ
C2_PartialOverride ==
  /\ Returned
  /\ weights = [length |-> Finite(SCALE), vocab |-> Finite(0)]
  /\ response = ListText
  /\ result.overallScore.kind = "finite"
  /\ result.overallScore.val \notin {0, 100}

\* C3: with weights {coherence: 1, length: 0, vocab: 0, repetition: 0, readability: 0}
\* overallScore equals round(coherenceScore * 100)
C3_CoherenceOnly ==
  Returned /\ weights = CoherenceOnly
    => result.overallScore = Finite(Round100(result.coherenceScore))

\* coherence alone is weighted, on a response whose lengthScore differs from its
\* coherenceScore
C3_CoherenceAlone ==
  /\ Returned
  /\ weights = CoherenceOnly
  /\ response = ListText
  /\ result.coherenceScore > 0
  /\ result.lengthScore # result.coherenceScore

\* calls i and j of the log were made with the same three arguments
SameArguments(i, j) ==
  /\ seen[i].response = seen[j].response
  /\ seen[i].prompt = seen[j].prompt
  /\ seen[i].weights = seen[j].weights

\* C4: two invocations of calculateMetrics with the same (response, prompt, weights)
\* return identical results, whatever other invocations ran before or between them
C4_Deterministic ==
  \A i, j \in 1..Len(seen) : SameArguments(i, j) => seen[i].result = seen[j].result

\* three calls in a row: the first and the third with the same arguments, and
\* between them a call with other weights
C4_SameCallAroundAnother ==
  /\ Returned
  /\ Len(seen) = 3
  /\ SameArguments(1, 3)
  /\ seen[2].weights # seen[1].weights
  /\ seen[2].result.overallScore # seen[1].result.overallScore

\* what invocation i returns when no other invocation runs
AloneResult(i) ==
  calculateMetrics(frames[i].response, frames[i].prompt, frames[i].given, DefaultWeightTable)

\* C5: interleaved invocations of calculateMetrics do not observe each other: none
\* writes DEFAULT_WEIGHTS or STOPWORDS, none changes the weights object it was
\* given, and what each returns under the interleaving is what it returns alone
C5_NoInterference ==
  /\ DEFAULT_WEIGHTS = DefaultWeightTable
  /\ STOPWORDS = StopwordList
  /\ \A i \in Invocations :
       /\ frames[i].weights = frames[i].given
       /\ frames[i].pc = "returned" => frames[i].result = AloneResult(i)

\* one invocation has returned while another, called with other weights, has merged
\* its weights and not yet returned
C5_Interleaved ==
  \E i, j \in Invocations :
    /\ frames[i].pc = "returned"
    /\ frames[j].pc \in {"spread", "scored", "built"}
    /\ frames[i].given # frames[j].given
    /\ frames[i].result.overallScore.val \in 1..99

\* the word tokens of the response of the call
ResponseTokens == tokenizeWords(response)

\* the tokens that are content words: longer than two characters and no stopword
ContentTokens ==
  LET tokens == ResponseTokens
  IN  {i \in 1..Len(tokens) : Len(tokens[i]) > 2 /\ tokens[i] \notin StopwordList}

\* C6: a response that tokenizes to zero words, the empty response among them, gets
\* lengthScore 0, and a response with zero content words gets
\* vocabularyRichnessScore 0, whatever the prompt
C6_NothingToScore ==
  Returned =>
    /\ response = EmptyText => result.lengthScore = 0 /\ result.vocabularyRichnessScore = 0
    /\ Len(ResponseTokens) = 0 => result.lengthScore = 0
    /\ ContentTokens = {} => result.vocabularyRichnessScore = 0

\* a response of words, none of them a content word: its length is scored and its
\* vocabulary is not
C6_WordsButNoContentWords ==
  /\ Returned
  /\ response = StopwordsText
  /\ Len(ResponseTokens) = 3
  /\ ContentTokens = {}
  /\ result.lengthScore > 0
  /\ result.vocabularyRichnessScore = 0

\* the positions of the token sequence w whose bigram stands at an earlier position
\* too: one for each occurrence of a bigram after its first
RepeatedBigramPositions(w) ==
  {i \in 2..(Len(w) - 1) : \E j \in 1..(i - 1) : w[j] = w[i] /\ w[j + 1] = w[i + 1]}

\* C7: a response that tokenizes to fewer than 6 word tokens gets repetitionPenalty 1,
\* however its tokens repeat
C7_ShortResponseUnpenalised ==
  Returned /\ Len(ResponseTokens) < 6 => result.repetitionPenalty = SCALE

\* five tokens, three of their four bigrams repeats of an earlier one
C7_FiveRepeatingTokens ==
  /\ Returned
  /\ Len(ResponseTokens) = 5
  /\ Cardinality(RepeatedBigramPositions(ResponseTokens)) = 3
  /\ result.repetitionPenalty = SCALE

\* 1 - min(1, repeats / max(1, n / 12))
RepetitionFormula(repeats, n) ==
  SCALE - (IF n <= 12 THEN Min(SCALE, repeats * SCALE)
                      ELSE Min(SCALE, RoundDiv(12 * repeats * SCALE, n)))

\* C8: a response of n >= 6 tokens gets repetitionPenalty 1 - min(1, repeats /
\* max(1, n / 12)), repeats being the sum of c - 1 over the distinct adjacent bigrams
\* that occur c > 1 times; "the cat the cat the cat the cat" has repeats 5 and gets 0
C8_RepetitionFormula ==
  Returned =>
    /\ Len(ResponseTokens) >= 6 =>
         result.repetitionPenalty =
           RepetitionFormula(Cardinality(RepeatedBigramPositions(ResponseTokens)),
                             Len(ResponseTokens))
    /\ response = TheCatText =>
         /\ bigramRepeats(ResponseTokens) = 5
         /\ result.repetitionPenalty = 0

\* the response of the claim, scored
C8_TheCatFourTimes ==
  /\ Returned
  /\ response = TheCatText
  /\ Len(ResponseTokens) = 8
  /\ Cardinality(RepeatedBigramPositions(ResponseTokens)) = 5
  /\ result.repetitionPenalty = 0

\* C9: the requirement count behind the length target is capped at 10: a prompt of
\* n bullet lines has reqCount min(10, n) and target 100 + 60 * min(10, n), so that
\* 20 bullet lines give reqCount 10, target 700 and the lengthScore that 10 give
C9_RequirementCountCapped ==
  Returned =>
    \A n \in 1..MaxBullets :
      prompt = Repeat(BulletLine, n) =>
        /\ Len(extractRequirements(prompt)) = n
        /\ reqCountOf(prompt) = Min(10, n)
        /\ lengthTarget(prompt) = 100 + 60 * Min(10, n)
        /\ n >= 10 => result.lengthScore = calculateLengthScore(response, Repeat(BulletLine, 10))

\* a prompt of 20 bullet lines, scored against the target of 10
C9_TwentyBullets ==
  /\ Returned
  /\ prompt = Repeat(BulletLine, 20)
  /\ Len(extractRequirements(prompt)) = 20
  /\ lengthTarget(prompt) = 700

\* text without the white space at its two ends
Stripped(text) ==
  LET inked == {i \in 1..Len(text) : text[i] \notin WhiteSpace}
  IN  IF inked = {} THEN <<>>
      ELSE SubSeq(text, CHOOSE i \in inked : \A j \in inked : i <= j,
                        CHOOSE i \in inked : \A j \in inked : i >= j)

\* the trimmed non-empty lines of text, in order
RECURSIVE TrimmedLines(_)
TrimmedLines(text) ==
  LET breaks == {i \in 1..Len(text) : text[i] = LF}
      first == CHOOSE i \in breaks : \A j \in breaks : i <= j
      line == Stripped(IF breaks = {} THEN text ELSE SubSeq(text, 1, first - 1))
      rest == IF breaks = {} THEN <<>> ELSE TrimmedLines(SubSeq(text, first + 1, Len(text)))
  IN  (IF line = <<>> THEN <<>> ELSE <<line>>) \o rest

\* the length of the bullet marker (-, *, the bullet) or numbered marker (digits and
\* a full stop) line starts with, and 0 when it starts with neither
MarkerOf(line) ==
  LET digits == {d \in 1..(Len(line) - 1) :
                   /\ \A i \in 1..d : line[i] \in Digits
                   /\ line[d + 1] = "."}
  IN  IF line # <<>> /\ line[1] \in {"-", "*", BULLET} THEN 1
      ELSE IF digits # {} THEN 1 + CHOOSE d \in digits : TRUE
      ELSE 0

\* line starts, in any case and at a word boundary, with one of the 15 verbs
StartsWithVerb(line) ==
  \E v \in ImperativeVerbs :
    /\ Len(line) >= Len(v)
    /\ \A i \in 1..Len(v) : toLowerChar(line[i]) = v[i]
    /\ (Len(line) > Len(v) => line[Len(v) + 1] \notin WordChars)

\* what a line contributes: nothing, or one requirement. With spaced, a marker
\* counts only when white space follows it.
Contribution(line, spaced) ==
  LET m == MarkerOf(line)
      follows == m < Len(line) /\ line[m + 1] \in WhiteSpace
  IN  IF m > 0 /\ (spaced => follows) THEN <<Stripped(SubSeq(line, m + 1, Len(line)))>>
      ELSE IF StartsWithVerb(line) THEN <<line>>
      ELSE <<>>

RECURSIVE Contributions(_, _)
Contributions(lines, spaced) ==
  IF lines = <<>> THEN <<>>
  ELSE Contribution(Head(lines), spaced) \o Contributions(Tail(lines), spaced)

\* the loop of extractRequirements yields expected, and the requirements the
\* result reports are expected, when there are any
LoopYields(expected) ==
  /\ requirementsOf(promptLines(prompt)) = expected
  /\ expected # <<>> =>
       /\ extractRequirements(prompt) = expected
       /\ result.details.requirements = Join(expected, <<",", SP>>)

\* C10, as stated: of the trimmed non-empty lines of the prompt, in order, a line
\* starting with a bullet marker or a numbered marker contributes the line with the
\* marker stripped, otherwise a line starting with one of the 15 verbs, in any case
\* and at a word boundary, contributes the whole line, and any other line nothing
C10_EveryMarkerCounts ==
  Returned => LoopYields(Contributions(TrimmedLines(prompt), FALSE))

\* C10, amended: as stated, but a bullet or numbered marker counts only when white
\* space follows it, and is stripped together with that white space; a line
\* starting with a marker and no white space after it is treated as a line
\* without marker
C10_SpacedMarkerCounts ==
  Returned => LoopYields(Contributions(TrimmedLines(prompt), TRUE))

\* a prompt of two lines, the first with a marker and no space after it, the second
\* a numbered line: only the second contributes
C10_TightAndSpacedMarkers ==
  /\ Returned
  /\ prompt = Join(<<LineDashTight, LineNumbered>>, <<LF>>)
  /\ extractRequirements(prompt) = <<<<"d">>>>
  /\ result.details.requirements = <<"d">>

\* C11: the list extractRequirements returns has at least one element unless the
\* prompt is empty, and when no line yields a requirement it is the one-element
\* list of the entire prompt, as passed (for the empty prompt, of the empty string)
C11_FallbackToPrompt ==
  Returned =>
    LET reqs == extractRequirements(prompt)
    IN  /\ prompt # EmptyText => Len(reqs) >= 1
        /\ Contributions(TrimmedLines(prompt), TRUE) = <<>> =>
             /\ reqs = <<prompt>>
             /\ result.details.requirements = prompt

\* a prompt of two lines, neither a requirement: the list is the prompt, whole
C11_NoLineYields ==
  /\ Returned
  /\ prompt = Join(<<LinePlain, LineDashTight>>, <<LF>>)
  /\ Contributions(TrimmedLines(prompt), TRUE) = <<>>
  /\ extractRequirements(prompt) = <<prompt>>

\* text is empty or holds white space only
Blank(text) == \A i \in 1..Len(text) : text[i] \in WhiteSpace

\* text holds a sentence boundary: a terminator with white space after it, or a newline
HasBoundary(text) ==
  \E i \in 1..Len(text) :
    \/ text[i] = LF
    \/ text[i] \in Terminators /\ i < Len(text) /\ text[i + 1] \in WhiteSpace

\* the pieces stand in text one after the other, from index from on
RECURSIVE FoundInOrder(_, _, _)
FoundInOrder(text, pieces, from) ==
  IF pieces = <<>> THEN TRUE
  ELSE LET piece == Head(pieces)
           starts == {p \in from..(Len(text) - Len(piece) + 1) :
                        SubSeq(text, p, p + Len(piece) - 1) = piece}
       IN  /\ starts # {}
           /\ FoundInOrder(text, Tail(pieces),
                           Len(piece) + CHOOSE p \in starts : \A q \in starts : p <= q)

\* C12: sentences(text) returns only trimmed, non-empty strings, in text order; it
\* returns the empty list exactly when the text is empty or white space only, and
\* for a non-blank text with no sentence boundary the one-element list of the
\* trimmed text
C12_SentencesWellFormed ==
  Returned =>
    LET s == sentences(response)
    IN  /\ \A i \in 1..Len(s) : s[i] # <<>> /\ Stripped(s[i]) = s[i]
        /\ FoundInOrder(response, s, 1)
        /\ s = <<>> <=> Blank(response)
        /\ ~Blank(response) /\ ~HasBoundary(response) => s = <<Stripped(response)>>
        /\ result.details.sentenceCount = Len(s)

\* a padded text with a terminator and no boundary: one sentence, the text trimmed
C12_PaddedSingleSentence ==
  /\ Returned
  /\ response = <<SP, "a", ".", "a", SP>>
  /\ sentences(response) = <<<<"a", ".", "a">>>>
  /\ result.details.sentenceCount = 1

\* C13: a response of at most one sentence, the empty response among them, gets
\* coherenceScore 0.6 when it has more than 40 word tokens and 0.5 otherwise,
\* whatever its headings, lists, transitions and paragraph length
C13_FlatCoherence ==
  Returned /\ Len(sentences(response)) <= 1 =>
    result.coherenceScore = (IF Len(ResponseTokens) > 40 THEN Fp(6, 10) ELSE Fp(5, 10))

\* one sentence of 41 tokens that starts with a list marker and holds a transition
C13_StructuredSingleSentence ==
  /\ Returned
  /\ response = StructuredLine(39)
  /\ Len(sentences(response)) = 1
  /\ Len(ResponseTokens) = 41
  /\ hasHeadings(response)
  /\ listLines(response) = 1
  /\ transCount(sentences(response)) = 1
  /\ result.coherenceScore = Fp(6, 10)

\* the sentences of the response that hold at least one token of the lexicon
TransitionSentences ==
  LET s == sentences(response)
  IN  {i \in 1..Len(s) :
         \E j \in 1..Len(tokenizeWords(s[i])) : tokenizeWords(s[i])[j] \in TransLexList}

\* min(1, k / max(1, n - 1))
TransitionFormula(k, n) == Min(SCALE, RoundDiv(k * SCALE, Max(1, n - 1)))

\* text with every i turned into o: 'in' becomes 'on', which is no transition
WithoutIn(text) == [i \in 1..Len(text) |-> IF text[i] = "i" THEN "o" ELSE text[i]]

\* the response is made of the words in, on and thus
OfTransitionWords ==
  Range(ResponseTokens) \subseteq {<<"i", "n">>, <<"o", "n">>, <<"t", "h", "u", "s">>}

\* C14: for a response of n >= 2 sentences, transScore = min(1, k / max(1, n - 1)),
\* k being the number of sentences that hold at least one token of the transition
\* lexicon; a sentence whose only lexicon token is the bare word "in" counts, so
\* that turning each "in" into "on" lowers coherenceScore by a tenth of what
\* transScore loses
C14_TransitionScore ==
  Returned /\ Len(sentences(response)) >= 2 =>
    LET n == Len(sentences(response))
        k == Cardinality(TransitionSentences)
        other == WithoutIn(response)
        kOther == Cardinality({i \in 1..n : <<"t", "h", "u", "s">> \in
                                              Range(tokenizeWords(sentences(other)[i]))})
    IN  /\ transScore(sentences(response)) = TransitionFormula(k, n)
        /\ OfTransitionWords =>
             /\ Len(sentences(other)) = n
             /\ result.coherenceScore =
                  calculateCoherenceScore(other)
                  + Mul(Fp(1, 10), TransitionFormula(k, n))
                  - Mul(Fp(1, 10), TransitionFormula(kOther, n))

\* two sentences, the first with "in" as its only lexicon token, the second with none
C14_BareInCounts ==
  /\ Returned
  /\ response = <<"i", "n", SP, "o", "n", ".", SP, "o", "n", ".">>
  /\ Len(sentences(response)) = 2
  /\ TransitionSentences = {1}
  /\ transScore(sentences(response)) = SCALE
  /\ result.coherenceScore > calculateCoherenceScore(WithoutIn(response))

\* the length target of the call, and the two bounds of the claim: floor(target *
\* 0.5) and ceil(target * 1.8)
Target == lengthTarget(prompt)

FloorHalf(t) == t \div 2

CeilNineFifths(t) == (9 * t + 4) \div 5

\* the penalty of the claim for a response of n words: (hardMin - n) / hardMin
\* below hardMin, (n - hardMax) / hardMax above hardMax, 0 between
PenaltyFormula(n, t) ==
  IF n < FloorHalf(t) THEN RoundDiv((FloorHalf(t) - n) * SCALE, FloorHalf(t))
  ELSE IF n > CeilNineFifths(t) THEN RoundDiv((n - CeilNineFifths(t)) * SCALE, CeilNineFifths(t))
  ELSE 0

\* the response is one sentence in one paragraph: its structure bonus is 1/6
OneSentenceOneParagraph == Len(sentences(response)) = 1 /\ Len(paragraphs(response)) = 1

\* C15: in the length scorer hardMin = floor(target * 0.5) and hardMax = ceil(target
\* * 1.8); the penalty is (hardMin - words) / hardMin below hardMin, (words -
\* hardMax) / hardMax above hardMax, and 0 exactly between the two; a prompt of 3
\* requirements has target 280 and its response is penalised exactly when it has
\* fewer than 140 or more than 504 words
C15_LengthPenalty ==
  Returned /\ Len(ResponseTokens) > 0 =>
    LET n == Len(ResponseTokens)
        penalty == lengthPenalty(n, Target)
    IN  /\ hardMinOf(Target) = FloorHalf(Target)
        /\ hardMaxOf(Target) = CeilNineFifths(Target)
        /\ penalty = PenaltyFormula(n, Target)
        /\ penalty = 0 <=> (FloorHalf(Target) <= n /\ n <= CeilNineFifths(Target))
        /\ OneSentenceOneParagraph =>
             result.lengthScore =
               clamp01(Mul(Mul(lengthGaussian(n, Target),
                               SCALE - Mul(Fp(6, 10), PenaltyFormula(n, Target))),
                           Fp(9, 10) + Mul(Fp(1, 10), Fp(1, 6))))
        /\ Len(TrimmedLines(prompt)) = 3 /\ Len(extractRequirements(prompt)) = 3 =>
             /\ Target = 280
             /\ penalty > 0 <=> (n < 140 \/ n > 504)

\* a response of 505 words to a prompt of 3 requirements: one word over hardMax
C15_OneWordOver ==
  /\ Returned
  /\ prompt = ThreeReqPrompt
  /\ Len(ResponseTokens) = 505
  /\ Target = 280
  /\ lengthPenalty(505, Target) = Fp(1, 504)
  /\ result.lengthScore > 0

\* n, or 1 when n is 0
OneIfZero(n) == IF n = 0 THEN 1 ELSE n

\* 0.39 * (words / sents) + 11.8 * (syllables / words) - 15.59
GradeFormula(words, sents, syllables) ==
  RoundDiv(39 * words * SCALE, 100 * sents) + RoundDiv(118 * syllables * SCALE, 10 * words)
  - RoundDiv(1559 * SCALE, 100)

\* clamp01(1 - min(1, |grade - 10| / 6))
ReadabilityFormula(grade) ==
  Max(0, Min(SCALE, SCALE - Min(SCALE, RoundDiv(Abs(grade - 10 * SCALE), 6))))

\* the syllables of the tokens of the response
ResponseSyllables ==
  LET tokens == ResponseTokens
  IN  SumSeq([i \in 1..Len(tokens) |-> syllableCount(tokens[i])])

\* C16: readabilityScore = clamp01(1 - min(1, |grade - 10| / 6)) with grade = 0.39 *
\* (words / sents) + 11.8 * (syllables / words) - 15.59, words and sents taken as 1
\* when 0; "Hello." has 1 word, 1 sentence, 2 syllables, grade 8.4 and
\* readabilityScore 0.733 within 0.01; the score is 0 whenever the grade is at most
\* 4 or at least 16
C16_Readability ==
  Returned =>
    LET words == OneIfZero(Len(ResponseTokens))
        sents == OneIfZero(Len(sentences(response)))
        grade == GradeFormula(words, sents, ResponseSyllables)
    IN  /\ result.details.fkGrade = grade
        /\ result.readabilityScore = ReadabilityFormula(grade)
        /\ grade <= 4 * SCALE \/ grade >= 16 * SCALE => result.readabilityScore = 0
        /\ response = HelloText =>
             /\ words = 1 /\ sents = 1 /\ ResponseSyllables = 2
             /\ result.details.fkGrade = Fp(84, 10)
             /\ Abs(result.readabilityScore - Fp(733, 1000)) <= Fp(1, 100)

\* "Hello.", scored
C16_Hello ==
  /\ Returned
  /\ response = HelloText
  /\ result.details.wordCount = 1
  /\ result.details.sentenceCount = 1
  /\ result.details.fkGrade = Fp(84, 10)
  /\ result.readabilityScore = Fp(7333, 10000)

\* the content words of the response, in order
ContentWordsOfResponse ==
  LET tokens == ResponseTokens
  IN  SelectSeq(tokens, LAMBDA w : Len(w) > 2 /\ w \notin StopwordList)

\* the response has content words, and no two of them are the same
DistinctContentWords ==
  LET words == ContentWordsOfResponse
  IN  /\ Len(words) >= 1
      /\ \A i, j \in 1..Len(words) : words[i] = words[j] => i = j

\* lengthDamp + 0.2 * (1 - lengthDamp) with lengthDamp = min(1, log10(N + 10) / 2)
RichnessOfDistinct(N) ==
  LET lengthDamp == Min(SCALE, RoundDiv(MathLog10(N + 10), 2))
  IN  lengthDamp + Mul(Fp(2, 10), SCALE - lengthDamp)

\* C17: a response whose content words (tokens longer than 2 characters that are no
\* stopwords) are all distinct has ttr 1 and hapax 1, and so vocabularyRichnessScore
\* lengthDamp + 0.2 * (1 - lengthDamp) with lengthDamp = min(1, log10(N + 10) / 2);
\* for N = 10 that is 0.72 within 0.01
C17_DistinctWordsRichness ==
  Returned /\ DistinctContentWords =>
    LET N == Len(ContentWordsOfResponse)
    IN  /\ result.vocabularyRichnessScore = RichnessOfDistinct(N)
        /\ N = 10 => Abs(result.vocabularyRichnessScore - Fp(72, 100)) <= Fp(1, 100)

\* C17, for the responses that do not hold the word "constructor": the same
\* score, and 0.72 within 0.01 for N = 10
C17_DistinctWordsNoInheritedKey ==
  Returned /\ DistinctContentWords /\ Range(ContentWordsOfResponse) \cap InheritedKeys = {} =>
    LET N == Len(ContentWordsOfResponse)
    IN  /\ result.vocabularyRichnessScore = RichnessOfDistinct(N)
        /\ N = 10 => Abs(result.vocabularyRichnessScore - Fp(72, 100)) <= Fp(1, 100)

\* ten distinct content words, scored
C17_TenDistinctWords ==
  /\ Returned
  /\ response = TenWordsText
  /\ DistinctContentWords
  /\ Len(ContentWordsOfResponse) = 10
  /\ result.vocabularyRichnessScore = RichnessOfDistinct(10)

\* C18: calculateMetrics returns, for every pair of strings, the empty and the
\* blank ones among them, a result whose scores are numbers, and no division of
\* any scorer is evaluated with denominator 0: the Jaccard union, the number of
\* similarities, the paragraph count, the number of unique words, the word and
\* sentence counts of the grade, hardMin, hardMax, target and sigma
C18_NoZeroDenominator ==
  Returned =>
    /\ \A d \in divisions(response, prompt) : d.den > 0
    /\ \A f \in SubScoreNames : result[f] \in 0..SCALE
    /\ result.details.sentenceCount \in Nat /\ result.details.wordCount \in Nat
    /\ result.details.fkGrade \in Int

\* two sentences without content words: the union of their word sets is empty, and
\* jaccard divides by 1
C18_EmptyUnionGuarded ==
  /\ Returned
  /\ response = <<"a", ".", SP, "a", ".">>
  /\ contentSet(sentences(response)[1]) \cup contentSet(sentences(response)[2]) = {}
  /\ Division("jaccard: inter / uni", 1) \in divisions(response, prompt)
  /\ result.coherenceScore \in 0..SCALE

\* the counts and the grade of the details record: sentenceCount is the number of
\* sentences of the response, wordCount the number of its word tokens, fkGrade the
\* grade as computed, not clamped, from which readabilityScore derives
CountsAndGrade ==
  /\ result.details.sentenceCount = Len(sentences(response))
  /\ result.details.wordCount = Len(ResponseTokens)
  /\ result.details.fkGrade =
       GradeFormula(OneIfZero(Len(ResponseTokens)), OneIfZero(Len(sentences(response))),
                    ResponseSyllables)
  /\ result.readabilityScore = ReadabilityFormula(result.details.fkGrade)

ScoresOf(r) ==
  [coherenceScore |-> r.coherenceScore,
   lengthScore |-> r.lengthScore,
   vocabularyRichnessScore |-> r.vocabularyRichnessScore,
   repetitionPenalty |-> r.repetitionPenalty,
   readabilityScore |-> r.readabilityScore,
   overallScore |-> r.overallScore,
   sentenceCount |-> r.details.sentenceCount,
   wordCount |-> r.details.wordCount,
   fkGrade |-> r.details.fkGrade]

\* both copies have been called with the same arguments and have returned
Compared == pc = "compared"

\* C20: for every response, prompt and weights, the calculateMetrics of
\* metrics.ts and that of the copy return the same five sub-scores, the same
\* overallScore and the same sentenceCount, wordCount and fkGrade
C20_CopiesAgreeOnScores ==
  Compared =>
    /\ seen[1].response = seen[2].response
    /\ seen[1].prompt = seen[2].prompt
    /\ seen[1].weights = seen[2].weights
    /\ ScoresOf(seen[1].result) = ScoresOf(seen[2].result)

\* both copies called on a prompt of three requirements with weights of the
\* caller's: the scores agree although metrics.ts returns the requirements as one
\* string of 34 characters and the copy as a list of three
C20_SameScoresOtherRequirements ==
  /\ Compared
  /\ prompt = ThreeReqPrompt
  /\ DOMAIN weights # {}
  /\ seen[1].result = result
  /\ Len(seen[1].result.details.requirements) = 34
  /\ Len(seen[2].result.details.requirements) = 3
  /\ seen[2].result.details.fkGrade \notin 0..SCALE

\* the route has answered the request
Replied == route.pc = "replied"

\* the answer that carries the responses: one ExperimentResponse with its metrics
\* for each submitted parameter set, in the order submitted, and the id of an
\* ExperimentSet the database holds
RepliedResponses ==
  LET sets == route.body.parameterSets
      out == route.reply.responses
  IN  /\ route.reply.status = 200
      /\ route.reply.error = "none"
      /\ route.body.parses /\ route.body.iterable
      /\ Len(out) = Len(sets)
      /\ \A k \in 1..Len(sets) :
           /\ out[k].temperature = sets[k].temperature
           /\ out[k].topP = sets[k].topP
           /\ out[k].maxTokens = sets[k].maxTokens
           /\ out[k].metrics =
                calculateMetrics(out[k].response, out[k].prompt, NoOverrides,
                                 DefaultWeightTable)
      /\ \E k \in 1..Len(route.db.experimentSet) :
           route.db.experimentSet[k] = route.reply.experimentSetId

\* the answer that carries an error: status 500 and an error field
RepliedError ==
  /\ route.reply.status = 500
  /\ route.reply.error # "none"
  /\ route.reply.responses = <<>>
  /\ route.reply.experimentSetId = "none"

\* C21: the request ends in exactly one of the two outcomes, and if a call of
\* generateResponse failed the outcome is the error one and neither an
\* ExperimentSet nor a Response record has been created
C21_TwoOutcomes ==
  /\ Replied => (RepliedResponses /\ ~RepliedError) \/ (RepliedError /\ ~RepliedResponses)
  /\ route.thrownBy = "generateResponse" =>
       /\ route.db.experimentSet = <<>>
       /\ route.db.response = <<>>
       /\ Replied => RepliedError

\* the second of two calls of generateResponse failed after the first had
\* returned: the answer is the error and the database is empty
C21_SecondGenerationFailed ==
  /\ Replied
  /\ Len(route.body.parameterSets) = 2
  /\ Len(route.responses) = 1
  /\ route.thrownBy = "generateResponse"
  /\ RepliedError
  /\ route.db = [experimentSet |-> <<>>, response |-> <<>>]

\* the weights object of the call names no weight: the default weights apply
DefaultWeightsApply == DOMAIN weights = {}

\* C22: coherenceScore is at least 0.1: with two sentences or more,
\* 0.6 * mean + 0.2 * stability is at least 0.2 and the wall-of-text penalty at most
\* 0.1; and under the default weights overallScore is at least 3
C22_CoherenceFloor ==
  Returned =>
    LET sents == sentences(response)
    IN  /\ result.coherenceScore >= Fp(1, 10)
        /\ Len(sents) >= 2 =>
             /\ lexicalCohesion(sentenceSims(sents)) >= Fp(2, 10)
             /\ paraPenalty(paragraphs(response)) <= Fp(1, 10)
        /\ DefaultWeightsApply =>
             /\ result.overallScore.kind = "finite"
             /\ result.overallScore.val >= 3

\* twenty sentences without a shared word in one paragraph of more than 600
\* characters: the floor is attained
C22_WallOfText ==
  /\ Returned
  /\ response = WallText
  /\ DefaultWeightsApply
  /\ Len(sentences(response)) = 20
  /\ lexicalCohesion(sentenceSims(sentences(response))) = Fp(2, 10)
  /\ paraPenalty(paragraphs(response)) = Fp(1, 10)
  /\ result.coherenceScore = Fp(1, 10)

\* the response is empty or holds white space only
WhiteSpaceOnly == \A i \in 1..Len(response) : response[i] \in WhiteSpace

\* C23: for an empty or white-space-only response, any prompt and the default
\* weights, coherenceScore is 0.5, repetitionPenalty 1, readabilityScore 0 with
\* fkGrade -15.2, lengthScore 0, vocabularyRichnessScore 0 and overallScore 25
C23_EmptyResponseScores ==
  Returned /\ WhiteSpaceOnly /\ DefaultWeightsApply =>
    /\ result.coherenceScore = Fp(5, 10)
    /\ result.repetitionPenalty = SCALE
    /\ result.readabilityScore = 0
    /\ result.details.fkGrade = -Fp(152, 10)
    /\ result.lengthScore = 0
    /\ result.vocabularyRichnessScore = 0
    /\ result.overallScore = Finite(25)

\* the response ' \n ' to a prompt of three requirements scores 25
C23_BlankResponse ==
  /\ Returned
  /\ response = BlankText
  /\ prompt = ThreeReqPrompt
  /\ DefaultWeightsApply
  /\ result.details.wordCount = 0
  /\ result.overallScore = Finite(25)

\* the length scorer's structure bonus for the response:
\* clamp01(sentCount / paraCount / 6) with paraCount 1 for 0
ResponseStructureBonus ==
  LET paras == Len(paragraphs(response))
  IN  clamp01(Fp(Len(sentences(response)), (IF paras = 0 THEN 1 ELSE paras) * 6))

\* C24: for every prompt (the empty one has the single requirement '') reqCount is
\* in 1..10 and the target is 100 + 60 * reqCount, one of 160, 220, ..., 700; the
\* clamp to [60, 1200] and the cap of sigma at 0.9 take no effect; hardMin is at
\* least 80, so a response of fewer than 40 words gets the ramp words / 40 and a
\* penalty above 0
C24_TargetsAndShortAnswers ==
  Returned =>
    LET n == Len(ResponseTokens)
        reqCount == reqCountOf(prompt)
    IN  /\ prompt = EmptyText => extractRequirements(prompt) = <<EmptyText>>
        /\ reqCount \in 1..10
        /\ Target = 100 + 60 * reqCount
        /\ Target \in {160 + 60 * k : k \in 0..9}
        /\ Fp(28, 100) + Fp(4 * Target, 10000) < Fp(9, 10)
        /\ lengthSigma(Target) = Fp(28, 100) + Fp(4 * Target, 10000)
        /\ hardMinOf(Target) >= 80
        /\ n < 40 =>
             /\ lengthPenalty(n, Target) = Fp(hardMinOf(Target) - n, hardMinOf(Target))
             /\ lengthPenalty(n, Target) > 0
             /\ result.lengthScore =
                  clamp01(Mul(Mul(Mul(lengthBell(n, Target), Fp(n, 40)),
                                  SCALE - Mul(Fp(6, 10), lengthPenalty(n, Target))),
                              Fp(9, 10) + Mul(Fp(1, 10), ResponseStructureBonus)))

\* a response of ten words to the empty prompt: one requirement, target 160,
\* ramp 10 / 40 and penalty 70 / 80
C24_TenWordsToEmptyPrompt ==
  /\ Returned
  /\ prompt = EmptyText
  /\ response = TenWordsText
  /\ extractRequirements(prompt) = <<EmptyText>>
  /\ Target = 160
  /\ lengthPenalty(Len(ResponseTokens), Target) = Fp(70, 80)
  /\ lengthGaussian(10, Target) = Mul(lengthBell(10, Target), Fp(10, 40))

\* generateResponse has returned or thrown
Settled == groq.pc \in {"returned", "thrown"}

\* maxRetries as the call has it: opts.maxRetries, 3 without one
MaxRetriesOfCall == IF groq.opts.given THEN groq.opts.maxRetries ELSE 3

\* the bound on the requests: at most maxRetries + 1, and none without the key
RequestsBounded ==
  /\ groq.requests <= MaxRetriesOfCall + 1
  /\ ~groq.opts.given => groq.requests <= 4
  /\ ~groq.apiKey =>
       /\ groq.requests = 0
       /\ groq.pc \in {"called", "thrown"}
       /\ groq.pc = "thrown" => groq.thrown = "GROQ_API_KEY is not set"

\* C25: generateResponse issues at most maxRetries + 1 requests (4 by default),
\* none when GROQ_API_KEY is unset, and if every request settles it ends by
\* returning or throwing
C25_BoundedAndTerminates == [](RequestsBounded) /\ <>Settled

\* the default maxRetries, every request answered 503: four requests, then the throw
C25_FourRequests ==
  /\ Settled
  /\ ~groq.opts.given
  /\ groq.requests = 4
  /\ groq.attempt = 4
  /\ groq.err.status = 599
  /\ groq.thrown = "Failed to generate response"

\* the catch clause has just run on a failed request: attempt is the number of the
\* attempt that failed and err what it failed with
AttemptFailed == groq.pc \in {"sleeping", "thrown"} /\ RequestFailed(groq.err)

\* the failure carries HTTP status 429 or 5xx
CarriesRetriableStatus == groq.err.status = 429 \/ groq.err.status \in 500..599

\* what follows a failed attempt: another attempt exactly when the status is 429
\* or 5xx and the attempt number at most maxRetries; the throw otherwise, on that
\* attempt, with 'Request canceled.' for a cancellation and, for a timeout,
\* 'Timeout after retries.' past maxRetries and 'Failed to generate response' before
AfterFailedAttempt ==
  AttemptFailed =>
    /\ groq.requests = groq.attempt
    /\ groq.pc = "sleeping" <=> (CarriesRetriableStatus /\ groq.attempt <= MaxRetriesOfCall)
    /\ groq.err.name = "CanceledError" => groq.thrown = "Request canceled."
    /\ groq.err.code = "ECONNABORTED" =>
         /\ groq.err.status = 0
         /\ groq.pc = "thrown"
         /\ groq.thrown = IF groq.attempt > MaxRetriesOfCall THEN "Timeout after retries."
                          ELSE "Failed to generate response"
    /\ groq.thrown = "Timeout after retries." =>
         groq.err.code = "ECONNABORTED" /\ groq.attempt > MaxRetriesOfCall

\* the sleep after a failed attempt is followed by the next request, and a throw by
\* nothing
AnotherAttemptFollows ==
  /\ groq.pc = "sleeping" => groq'.pc = "looping"
  /\ groq.pc = "looping" => groq'.pc = "awaiting" /\ groq'.requests = groq.requests + 1
  /\ groq.pc = "thrown" => groq' = groq

\* C26: a failed attempt is followed by another attempt if and only if it carries
\* status 429 or 5xx and the attempt number is <= maxRetries; every other failure
\* throws on its attempt: a cancellation 'Request canceled.', a timeout (never
\* retried) 'Timeout after retries.' if the attempt number exceeds maxRetries and
\* 'Failed to generate response' otherwise
C26_RetryExactlyOnRetriableStatus == [](AfterFailedAttempt) /\ [][AnotherAttemptFollows]_vars

\* the default maxRetries: three attempts answered 429 were retried, the fourth
\* timed out
C26_TimeoutAfterRetries ==
  /\ AttemptFailed
  /\ ~groq.opts.given
  /\ groq.attempt = 4
  /\ groq.requests = 4
  /\ groq.err.code = "ECONNABORTED"
  /\ groq.thrown = "Timeout after retries."

\* generateResponse has returned an ExperimentResponse
GenerateReturned == groq.pc = "returned"

\* C27: the metrics of the ExperimentResponse generateResponse returns are those
\* of the default weights, whether config names weights or not: config.weights
\* has no effect on overallScore
C27_MetricsUnderDefaultWeights ==
  GenerateReturned =>
    LET byDefault == calculateMetrics(groq.returned.response, groq.config.prompt, NoOverrides,
                                      DefaultWeightTable)
    IN  /\ groq.returned.metrics = byDefault
        /\ groq.returned.metrics.overallScore = byDefault.overallScore

\* a configuration whose weights put everything on coherence: the response
\* 'Hello.' still gets the overallScore of the default weights, not that of
\* config.weights
C27_WeightsOfConfigIgnored ==
  /\ GenerateReturned
  /\ DOMAIN groq.config.weights # {}
  /\ groq.returned.response = HelloText
  /\ groq.returned.metrics.overallScore #
       calculateMetrics(HelloText, groq.config.prompt, groq.config.weights,
                        DefaultWeightTable).overallScore

\* the state of the Reports component
ReportsState == <<reportsPage.loading, reportsPage.reports, reportsPage.error>>

\* the setter calls made so far that are calls of name
CallsOf(name) == {k \in 1..Len(reportsPage.calls) : reportsPage.calls[k][1] = name}

\* the effect now in force has ended its fetch: the request and the reading of its
\* body have settled
CurrentFetchSettled ==
  reportsPage.pc = "mounted" /\ reportsPage.effects[reportsPage.runs].pc = "done"

\* once unmounted, no step changes reports, error or loading
UnmountedLeavesState == reportsPage.pc = "unmounted" => ReportsState' = ReportsState

\* mounted and settled: loading is false and either the error was set or the
\* reports were, once and not both
SettledOneWay ==
  CurrentFetchSettled =>
    /\ reportsPage.loading = FALSE
    /\ Cardinality(CallsOf("error")) + Cardinality(CallsOf("reports")) = 1
    /\ CallsOf("error") # {} => reportsPage.error # "null" /\ reportsPage.reports = <<>>
    /\ CallsOf("reports") # {} => reportsPage.error = "null"

\* C28: once the Reports component has unmounted the fetch in flight changes none
\* of reports, error and loading, in whatever order unmount and completion come;
\* while mounted, after the fetch settles loading is false and exactly one of
\* 'error set' and 'reports set from data.sets' has happened
C28_UnmountedFetchSilent == [](SettledOneWay) /\ [][UnmountedLeavesState]_vars

\* the component unmounted between the answer and its body: the body arrived, the
\* async function ended, and the state is still the initial one
C28_UnmountedBeforeBody ==
  /\ reportsPage.pc = "unmounted"
  /\ reportsPage.runs = 1
  /\ reportsPage.effects[1].pc = "done"
  /\ reportsPage.effects[1].res = "200"
  /\ reportsPage.calls = <<>>
  /\ ReportsState = <<TRUE, <<>>, "null">>

\* the downloads started and not settled
InFlight ==
  {d \in Downloads : exportButtons.downloads[d].pc \in {"fetching", "readingText", "readingBlob"}}

\* the downloads that have settled, in success or in failure
SettledDownloads == {d \in Downloads : exportButtons.downloads[d].pc \in {"succeeded", "failed"}}

\* C29: loading is true from the start of a download until it settles and false
\* afterwards, whether it succeeded or failed; the buttons are disabled while
\* loading, so at most one download is in flight at any time
C29_OneDownloadAtATime ==
  /\ Cardinality(InFlight) <= 1
  /\ exportButtons.loading <=> InFlight # {}
  /\ exportButtons.loading => exportButtons.disabled
  /\ InFlight \cup SettledDownloads = 1..exportButtons.started

\* a second download is in flight after the first failed, while the timer of the
\* first is still pending
C29_SecondDownloadAfterFailure ==
  /\ exportButtons.downloads[1].pc = "failed"
  /\ exportButtons.downloads[2].pc = "readingBlob"
  /\ exportButtons.timers = 1
  /\ exportButtons.loading
  /\ exportButtons.disabled

\* the requests of handleExperiment that are pending
Pending == {r \in Submits : experimentPage.submits[r].pc \in {"fetching", "parsing"}}

\* isLoading is true exactly while a request is pending
LoadingWhilePending == experimentPage.isLoading <=> Pending # {}

\* a step replaces the displayed responses only by ending a request whose answer
\* has an OK status, and a request that ends otherwise (it threw, its body is not
\* JSON, its status is not OK) leaves them as they were
ReplacedOnlyWhenOk ==
  /\ experimentPage'.setCalls # experimentPage.setCalls \/
     experimentPage'.responses # experimentPage.responses =>
       \E r \in Pending :
         /\ experimentPage.submits[r].pc = "parsing"
         /\ resOk(experimentPage.submits[r].res)
         /\ experimentPage'.submits[r].outcome = "replaced"
  /\ \A r \in Pending :
       experimentPage'.submits[r].outcome \in {"threw", "notJson", "notOk"} =>
         /\ experimentPage'.responses = experimentPage.responses
         /\ experimentPage'.setCalls = experimentPage.setCalls
         /\ experimentPage'.isLoading = FALSE

\* C30: in handleExperiment isLoading is true while the request is pending and
\* false after every outcome; the displayed responses are replaced only when the
\* server answers with an OK status and are left unchanged when the request
\* throws, the body is not JSON, or the status is not OK
C30_LoadingAndResponses == [](LoadingWhilePending) /\ [][ReplacedOnlyWhenOk]_vars

\* a first experiment was answered and displayed; the second was answered with
\* status 500: its two responses are still displayed and isLoading is false
C30_ErrorKeepsResponses ==
  /\ experimentPage.submits[1].outcome = "replaced"
  /\ experimentPage.submits[2].outcome = "notOk"
  /\ experimentPage.submits[2].res = "500"
  /\ experimentPage.responses = <<"response-a", "response-b">>
  /\ experimentPage.setCalls = 1
  /\ ~experimentPage.isLoading

====
